---- MODULE Spec2Model ----
(***************************************************************************)
(* TinyThread++ (src/include/tinythread.h): mutex, recursive_mutex,        *)
(* lock_guard, condition_variable, atomic_flag and atomic<T>, on the two   *)
(* native backends the header selects between (_TTHREAD_WIN32_: critical   *)
(* sections and events; _TTHREAD_POSIX_: pthread).                         *)
(*                                                                         *)
(* Every thread is a client that calls the library; a call is a sequence   *)
(* of steps, one per statement of the method, and pc[t] is the statement   *)
(* thread t executes next ("idle": between calls).  The module holds one   *)
(* specification per class of the library; they share the variables, and   *)
(* a specification leaves the objects it does not use as constructed.      *)
(***************************************************************************)
EXTENDS Integers, FiniteSets, Sequences, TLC

\* Number of client threads.
NThreads == 3
\* Increments each thread makes on the shared atomic<int>.
PerThread == 2
\* Most acquisitions of one mutex a client keeps at a time.
MaxHold == 2

Threads == 1..NThreads
\* Thread objects the owning thread constructs.
NHandles == 2
Handles == 1..NHandles
\* lock_guard<mutex> objects the threads construct, all on the one mutex.
NGuards == 2
Guards == 1..NGuards
\* No thread object.
NoHandle == 0
\* No thread (the owner of a free native lock).
NoThread == 0

VARIABLES
  backend,         \* "win32" (_TTHREAD_WIN32_) or "posix" (_TTHREAD_POSIX_)
  pc,              \* pc[t]: the statement thread t executes next
  last,            \* last[t]: the call thread t returned from last
  ret,             \* ret[t]: what that call returned
  held,            \* held[t]: returns of lock()/true try_lock() minus unlock() calls
  mOwner,          \* mutex::mHandle: the owning thread (NoThread: free)
  mCount,          \* mutex::mHandle: entries of the owner (RecursionCount)
  mAlreadyLocked,  \* mutex::mAlreadyLocked (win32 only)
  pre,             \* pre[t]: the mutex as it was when t called try_lock()
  rOwner,          \* recursive_mutex::mHandle: the owning thread
  rCount,          \* recursive_mutex::mHandle: entries of the owner
  mWaitersCount,   \* condition_variable::mWaitersCount (win32)
  mEvents,         \* condition_variable::mEvents (win32): the waiters a
                   \* signal or broadcast has been set for, not yet resumed
  had,             \* had[t]: waiters not yet woken when t's notify took effect
  woke,            \* woke[t]: waiters t's notify woke
  fired,           \* threads whose latest notify call has taken effect
  early,           \* early[w]: the threads in fired when w called wait()
  wokenBy,         \* wokenBy[w]: the thread whose notify released w from wait()
  count,           \* the shared counter of the producer/consumer example
  cprog,           \* the consumer's position in its program
  pprog,           \* the producer's position in its program
  iter,            \* iterations the producer has completed
  seen,            \* the counter as the consumer read it when leaving its loop
  flagPath,        \* which test_and_set()/clear() the build compiles
  mFlag,           \* atomic_flag::mFlag
  result,          \* result[t]: the local result of t's test_and_set/fetch_add
  resv,            \* resv[t]: t holds a reservation on mFlag (lwarx)
  old,             \* old[t]: mFlag right before t's test_and_set took effect
  atomPath,        \* which fetch_add() the build compiles
  desired,         \* the value the atomic<int> was constructed with
  mValue,          \* atomic<int>::mValue
  tmp,             \* tmp[t]: mValue as loaded by t's mValue += arg
  left,            \* left[t]: increments t has yet to call
  arg,             \* arg[t]: the argument of t's fetch_add/fetch_sub
  before,          \* before[t]: mValue right before t's call wrote it
  wrote,           \* wrote[t]: mValue as t's call wrote it
  rets,            \* the values returned so far, while only fetch_add(1) is called
  plain,           \* only fetch_add(1) has been called, and rets is kept
  writer,          \* the thread that wrote mValue last (NoThread: the constructor)
  saw,             \* saw[t]: the writer of the value t's load() read
  hLife,           \* hLife[h]: thread object h is "unborn", "live" or "dead"
  mHandle,         \* thread::mHandle of object h (0: no thread)
  assoc,           \* assoc[h]: h has an execution not yet retired
  retired,         \* retired[h]: join()/detach() calls that retired h's execution
  routine,         \* routine[h]: where the start routine of h's execution is
  flagMem,         \* flagMem[h]: the flag h's routine sets, in memory
  flagView,        \* flagView[h]: that flag as the owning thread sees it
  joining,         \* the object the owning thread is blocked in join() on
  joined,          \* the objects a join() has returned on
  terminated,      \* std::terminate() was called
  gLife,           \* gLife[g]: lock_guard g is "unborn", "ctor", "live", "dtor" or "dead"
  gMutex,          \* lock_guard::mMutex of g (0: null, 1: the mutex)
  gHow,            \* gHow[g]: the constructor g was made with
  gBy,             \* gBy[g]: the thread whose scope g lives in
  gAcq,            \* gAcq[g]: the guard whose lock() call g's mMutex stands for
  gLocks,          \* gLocks[g]: lock() calls g has made
  gUnlocks,        \* gUnlocks[g]: unlock() calls g has made
  released,        \* released[a]: unlock() calls made for the lock() call of a
  cur,             \* cur[t]: the guard whose constructor/destructor t runs
  order,           \* order[t]: the memory_order arguments of t's call, in two runs
  mValue2,         \* atomic<int>::mValue in the second run
  mFlag2,          \* atomic_flag::mFlag in the second run
  result2          \* result2[t]: the local result of t's call in the second run

mutexVars == <<mOwner, mCount, mAlreadyLocked>>
rVars == <<rOwner, rCount>>
cvVars == <<mWaitersCount, mEvents>>
eligVars == <<fired, early, wokenBy>>
cvHist == <<had, woke, eligVars>>
scenVars == <<count, cprog, pprog, iter, seen>>
flagVars == <<flagPath, mFlag, resv, old>>
fetchVars == <<arg, before, wrote, rets, plain, writer, saw>>
atomVars == <<atomPath, desired, mValue, tmp, left, fetchVars>>
threadVars ==
  <<hLife, mHandle, assoc, retired, routine, flagMem, flagView, joining,
    joined, terminated>>
guardVars ==
  <<gLife, gMutex, gHow, gBy, gAcq, gLocks, gUnlocks, released, cur>>
orderVars == <<order, mValue2, mFlag2, result2>>
vars ==
  <<backend, orderVars, pc, last, ret, held, mutexVars, rVars, cvVars, cvHist, scenVars,
    flagVars, atomVars, result, threadVars, guardVars, pre>>

\* What the calls on a mutex leave alone.
frameTry ==
  <<backend, orderVars, rVars, cvVars, cvHist, scenVars, flagVars, atomVars, result,
    threadVars, guardVars>>
frameM == <<frameTry, pre>>
\* What the calls on a recursive_mutex leave alone.
frameR ==
  <<backend, orderVars, mutexVars, cvVars, cvHist, scenVars, flagVars, atomVars, result,
    threadVars, guardVars, pre>>
\* What the calls on a condition_variable leave alone.
frameCV ==
  <<backend, orderVars, rVars, scenVars, flagVars, atomVars, result, threadVars,
    guardVars, pre>>
\* What the calls on an atomic_flag or an atomic<int> leave alone.
frameA ==
  <<backend, orderVars, held, rVars, cvVars, cvHist, scenVars, threadVars, guardVars,
    pre>>

Backends == {"win32", "posix"}

\* enum memory_order
MemoryOrders ==
  {"memory_order_relaxed", "memory_order_consume", "memory_order_acquire",
   "memory_order_release", "memory_order_acq_rel", "memory_order_seq_cst"}

\* memory_order order = memory_order_seq_cst, in both runs.
DefaultOrders == <<"memory_order_seq_cst", "memory_order_seq_cst">>

\* No try_lock() call is under way.
NoCall == <<NoThread, 0, FALSE>>

\* ------------------------------------------------------------------------
\* Control: calls and returns.

Goto(t, from, to) == pc[t] = from /\ pc' = [pc EXCEPT ![t] = to]

\* Thread t returns value v from call op, at statement from.
Return(t, from, op, v) ==
  /\ Goto(t, from, "idle")
  /\ last' = [last EXCEPT ![t] = op]
  /\ ret' = [ret EXCEPT ![t] = v]

\* Thread t goes from one statement of a call to the next.
Step(t, from, to) == Goto(t, from, to) /\ UNCHANGED <<last, ret>>

\* Thread t, between calls, enters a call at statement to; what it remembers
\* of its previous call is dropped.
Call(t, to) ==
  /\ Goto(t, "idle", to)
  /\ last' = [last EXCEPT ![t] = "none"]
  /\ ret' = [ret EXCEPT ![t] = FALSE]

\* ------------------------------------------------------------------------
\* Native primitives on mutex::mHandle.

\* A critical section that any thread may enter at any time.
CanEnterAnyOwner(t) == mOwner \in {NoThread} \cup Threads

\* A critical section is recursive: its owner enters again.
CanEnterCriticalSection(t) == mOwner \in {NoThread, t}

\* An EnterCriticalSection that does not wait for the owner to leave.
EnterCriticalSectionNoWait(t) ==
  /\ mOwner' = t
  /\ mCount' = mCount + 1

\* EnterCriticalSection(&mHandle): waits until the section is free or the
\* caller's.
EnterCriticalSection(t) ==
  /\ CanEnterCriticalSection(t)
  /\ mOwner' = t
  /\ mCount' = mCount + 1

\* LeaveCriticalSection(&mHandle), by the owner.
LeaveCriticalSection(t) ==
  /\ mCount' = mCount - 1
  /\ mOwner' = IF mCount = 1 THEN NoThread ELSE mOwner

\* pthread_mutex_trylock(&mHandle) == 0 on a mutex of the default type: the
\* mutex is free.
CanTryLockPthread(t) == mOwner = NoThread

\* pthread_mutex_lock(&mHandle) on a mutex made with pthread_mutex_init(.., NULL):
\* waits while the mutex is owned, whoever owns it.
LockPthread(t) ==
  /\ mOwner = NoThread
  /\ mOwner' = t
  /\ mCount' = 1

\* pthread_mutex_unlock(&mHandle), by the owner.
UnlockPthread(t) ==
  /\ mOwner' = NoThread
  /\ mCount' = 0

\* ------------------------------------------------------------------------
\* mutex::lock(), statement by statement; from/to are the caller's labels.

\* win32: EnterCriticalSection(&mHandle);   posix: pthread_mutex_lock(&mHandle);
LockEnter(t, from, spin, done) ==
  IF backend = "win32"
  THEN /\ EnterCriticalSection(t)
       /\ Goto(t, from, spin)
       /\ UNCHANGED mAlreadyLocked
  ELSE /\ LockPthread(t)
       /\ Goto(t, from, done)
       /\ UNCHANGED mAlreadyLocked

\* win32: while(mAlreadyLocked) Sleep(1000);
LockSpin(t, at, to) ==
  /\ backend = "win32"
  /\ pc[t] = at
  /\ pc' = [pc EXCEPT ![t] = IF mAlreadyLocked THEN at ELSE to]
  /\ UNCHANGED mutexVars

\* win32: mAlreadyLocked = true;
LockSet(t, from, to) ==
  /\ backend = "win32"
  /\ Goto(t, from, to)
  /\ mAlreadyLocked' = TRUE
  /\ UNCHANGED <<mOwner, mCount>>

\* ------------------------------------------------------------------------
\* mutex::unlock().

\* win32: mAlreadyLocked = false;
UnlockClear(t, from, to) ==
  /\ backend = "win32"
  /\ Goto(t, from, to)
  /\ mAlreadyLocked' = FALSE
  /\ UNCHANGED <<mOwner, mCount>>

\* An unlock() that returns without giving the native lock back.
UnlockLeaveKept(t, from, to) ==
  /\ Goto(t, from, to)
  /\ mOwner' = t
  /\ mCount' = 1
  /\ UNCHANGED mAlreadyLocked

\* win32: LeaveCriticalSection(&mHandle);   posix: pthread_mutex_unlock(&mHandle);
UnlockLeave(t, from, to) ==
  /\ Goto(t, from, to)
  /\ IF backend = "win32" THEN LeaveCriticalSection(t) ELSE UnlockPthread(t)
  /\ UNCHANGED mAlreadyLocked

\* ------------------------------------------------------------------------
\* Clients of one mutex: any thread calls lock() or try_lock() at any time
\* (also on a mutex it holds), and unlock() when it holds the mutex.

LockLabels == {"lock_enter", "lock_spin", "lock_set", "lock_ret"}
TryLabels == {"try_enter", "try_check", "try_ret"}
UnlockLabels == {"unlock_clear", "unlock_leave"}

CallLock(t) ==
  /\ held[t] < MaxHold
  /\ Call(t, "lock_enter")
  /\ UNCHANGED <<frameM, held, mutexVars>>

MLockEnter(t) ==
  /\ LockEnter(t, "lock_enter", "lock_spin", "lock_ret")
  /\ UNCHANGED <<frameM, last, ret, held>>

MLockSpin(t) ==
  /\ LockSpin(t, "lock_spin", "lock_set")
  /\ UNCHANGED <<frameM, last, ret, held>>

MLockSet(t) ==
  /\ LockSet(t, "lock_set", "lock_ret")
  /\ UNCHANGED <<frameM, last, ret, held>>

\* lock() returns: the caller holds the mutex from here.
MLockReturn(t) ==
  /\ Return(t, "lock_ret", "lock", TRUE)
  /\ held' = [held EXCEPT ![t] = @ + 1]
  /\ UNCHANGED <<frameM, mutexVars>>

CallTryLock(t) ==
  /\ held[t] < MaxHold
  /\ Call(t, "try_enter")
  /\ pre' = [pre EXCEPT ![t] = mutexVars]
  /\ UNCHANGED <<frameTry, held, mutexVars>>

\* win32: bool ret = (TryEnterCriticalSection(&mHandle) ? true : false);
\* posix: return (pthread_mutex_trylock(&mHandle) == 0) ? true : false;
MTryEnter(t) ==
  /\ pc[t] = "try_enter"
  /\ IF backend = "win32"
     THEN IF CanEnterCriticalSection(t)
          THEN /\ EnterCriticalSection(t)
               /\ pc' = [pc EXCEPT ![t] = "try_check"]
               /\ ret' = [ret EXCEPT ![t] = TRUE]
          ELSE /\ UNCHANGED <<mOwner, mCount>>
               /\ pc' = [pc EXCEPT ![t] = "try_check"]
               /\ ret' = [ret EXCEPT ![t] = FALSE]
     ELSE IF CanTryLockPthread(t)
          THEN /\ LockPthread(t)
               /\ pc' = [pc EXCEPT ![t] = "try_ret"]
               /\ ret' = [ret EXCEPT ![t] = TRUE]
          ELSE /\ UNCHANGED <<mOwner, mCount>>
               /\ pc' = [pc EXCEPT ![t] = "try_ret"]
               /\ ret' = [ret EXCEPT ![t] = FALSE]
  /\ UNCHANGED <<frameM, last, held, mAlreadyLocked>>

\* win32: if(ret && mAlreadyLocked) { LeaveCriticalSection(&mHandle); ret = false; }
TryCheckUndo(t) == ret[t] /\ mAlreadyLocked

MTryCheck(t) ==
  /\ backend = "win32"
  /\ pc[t] = "try_check"
  /\ pc' = [pc EXCEPT ![t] = "try_ret"]
  /\ IF TryCheckUndo(t)
     THEN /\ LeaveCriticalSection(t)
          /\ ret' = [ret EXCEPT ![t] = FALSE]
     ELSE UNCHANGED <<mOwner, mCount, ret>>
  /\ UNCHANGED <<frameM, last, held, mAlreadyLocked>>

\* return ret;  the caller holds the mutex from here when ret is true.
MTryReturn(t) ==
  /\ Return(t, "try_ret", "try_lock", ret[t])
  /\ held' = [held EXCEPT ![t] = IF ret[t] THEN @ + 1 ELSE @]
  /\ pre' = [pre EXCEPT ![t] = NoCall]
  /\ UNCHANGED <<frameTry, mutexVars>>

\* unlock() is called by a holder only; it holds the mutex until the call.
CallUnlock(t) ==
  /\ held[t] > 0
  /\ Call(t, IF backend = "win32" THEN "unlock_clear" ELSE "unlock_leave")
  /\ held' = [held EXCEPT ![t] = @ - 1]
  /\ UNCHANGED <<frameM, mutexVars>>

MUnlockClear(t) ==
  /\ UnlockClear(t, "unlock_clear", "unlock_leave")
  /\ UNCHANGED <<frameM, last, ret, held>>

MUnlockLeave(t) ==
  /\ UnlockLeave(t, "unlock_leave", "idle")
  /\ last' = [last EXCEPT ![t] = "unlock"]
  /\ UNCHANGED <<frameM, ret, held>>

\* mutex::mutex(): mAlreadyLocked(false), InitializeCriticalSection /
\* pthread_mutex_init.
InitMutexObject ==
  /\ mOwner = NoThread
  /\ mCount = 0
  /\ mAlreadyLocked = FALSE

InitControl ==
  /\ backend \in Backends
  /\ order = [t \in Threads |-> DefaultOrders]
  /\ mValue2 = 0
  /\ mFlag2 = 0
  /\ result2 = [t \in Threads |-> 0]
  /\ pre = [t \in Threads |-> NoCall]
  /\ pc = [t \in Threads |-> "idle"]
  /\ last = [t \in Threads |-> "none"]
  /\ ret = [t \in Threads |-> FALSE]
  /\ held = [t \in Threads |-> 0]

\* recursive_mutex::recursive_mutex(): InitializeCriticalSection /
\* pthread_mutex_init with PTHREAD_MUTEX_RECURSIVE.
InitRecursiveObject ==
  /\ rOwner = NoThread
  /\ rCount = 0

\* condition_variable::condition_variable(): no waiter, no event set
\* (win32); pthread_cond_init (posix).
InitCondObject ==
  /\ mWaitersCount = 0
  /\ mEvents = {}
  /\ had = [t \in Threads |-> 0]
  /\ woke = [t \in Threads |-> 0]
  /\ fired = {}
  /\ early = [t \in Threads |-> {}]
  /\ wokenBy = [t \in Threads |-> NoThread]

\* The example's shared state: int count = 0; neither thread has started.
InitExample ==
  /\ count = 0
  /\ cprog = "start"
  /\ pprog = "lock"
  /\ iter = 0
  /\ seen = 0

\* atomic_flag::atomic_flag() : mFlag(0)
InitFlagObject ==
  /\ mFlag = 0
  /\ result = [t \in Threads |-> 0]
  /\ resv = [t \in Threads |-> FALSE]
  /\ old = [t \in Threads |-> 0]

\* atomic<int>::atomic(T desired) : mValue(desired)
InitAtomicObject ==
  /\ mValue = desired
  /\ tmp = [t \in Threads |-> 0]
  /\ arg = [t \in Threads |-> 0]
  /\ before = [t \in Threads |-> 0]
  /\ wrote = [t \in Threads |-> 0]
  /\ rets = {}
  /\ writer = NoThread
  /\ saw = [t \in Threads |-> NoThread]

\* No thread object has been constructed yet.
InitHandles ==
  /\ hLife = [h \in Handles |-> "unborn"]
  /\ mHandle = [h \in Handles |-> 0]
  /\ assoc = [h \in Handles |-> FALSE]
  /\ retired = [h \in Handles |-> 0]
  /\ routine = [h \in Handles |-> "none"]
  /\ flagMem = [h \in Handles |-> FALSE]
  /\ flagView = [h \in Handles |-> FALSE]
  /\ joining = NoHandle
  /\ joined = {}
  /\ terminated = FALSE

\* No lock_guard has been constructed yet.
InitGuards ==
  /\ gLife = [g \in Guards |-> "unborn"]
  /\ gMutex = [g \in Guards |-> 0]
  /\ gHow = [g \in Guards |-> "none"]
  /\ gBy = [g \in Guards |-> NoThread]
  /\ gAcq = [g \in Guards |-> 0]
  /\ gLocks = [g \in Guards |-> 0]
  /\ gUnlocks = [g \in Guards |-> 0]
  /\ released = [g \in Guards |-> 0]
  /\ cur = [t \in Threads |-> 0]

\* Every thread has PerThread increments to make.
InitIncrements == left = [t \in Threads |-> PerThread]

\* The objects the threads share, but for how the atomics are built.
InitShared ==
  /\ InitMutexObject
  /\ InitRecursiveObject
  /\ InitCondObject
  /\ InitExample
  /\ InitFlagObject
  /\ InitAtomicObject
  /\ InitHandles
  /\ InitGuards

\* A build with the atomic builtins (gcc 4.1 or later), an atomic<int>().
InitObjects ==
  /\ flagPath = "builtin"
  /\ atomPath = "builtin"
  /\ desired = 0
  /\ plain = FALSE
  /\ InitIncrements
  /\ InitShared

InitMutex == InitControl /\ InitObjects

NextMutex ==
  \E t \in Threads :
    \/ CallLock(t)
    \/ MLockEnter(t)
    \/ MLockSpin(t)
    \/ MLockSet(t)
    \/ MLockReturn(t)
    \/ CallTryLock(t)
    \/ MTryEnter(t)
    \/ MTryCheck(t)
    \/ MTryReturn(t)
    \/ CallUnlock(t)
    \/ MUnlockClear(t)
    \/ MUnlockLeave(t)

SpecMutex == InitMutex /\ [][NextMutex]_vars

\* ------------------------------------------------------------------------
\* Properties of mutex.

Holders == {t \in Threads : held[t] > 0}

\* C1: at most one thread holds the mutex, on both backends, a thread holding
\* it from the return of lock() or of a true try_lock() until its unlock().
C1_MutualExclusion == Cardinality(Holders) <= 1

\* C1 witness: one thread holds the mutex while another waits in lock() and
\* a third was refused by try_lock().
C1_Witness ==
  \E a, b, c \in Threads :
    /\ a # b /\ b # c /\ a # c
    /\ held[a] > 0
    /\ pc[b] = "lock_enter"
    /\ pc[c] = "idle" /\ last[c] = "try_lock" /\ ret[c] = FALSE

\* C2: a lock() called by a thread that holds the mutex never returns.
C2_RelockNeverReturns ==
  [][\A t \in Threads :
       (pc[t] \in LockLabels /\ held[t] > 0) => pc'[t] \in LockLabels]_vars

\* C3: a try_lock() by b that returns while another thread holds the mutex
\* returns false, and b does not become a holder.
C3_TryLockRefused ==
  [][\A b \in Threads :
       (pc[b] = "try_ret" /\ pc'[b] = "idle" /\ Holders \ {b} # {})
         => (ret'[b] = FALSE /\ held'[b] = held[b])]_vars

\* C3 witness: b returned false from try_lock() while a holds the mutex.
C3_Witness ==
  \E a, b \in Threads :
    /\ a # b
    /\ held[a] > 0
    /\ pc[b] = "idle" /\ last[b] = "try_lock" /\ ret[b] = FALSE

\* ------------------------------------------------------------------------
\* recursive_mutex.  Both backends give the same object: a critical section
\* is recursive, and the pthread mutex is made PTHREAD_MUTEX_RECURSIVE.

\* Most nested lock() calls of one client.
MaxDepth == 3

\* A release that gives the mutex up whatever the count of entries.
RLeaveAll(t) ==
  /\ rCount' = 0
  /\ rOwner' = NoThread

\* TryEnterCriticalSection / pthread_mutex_trylock == 0: the mutex is free or
\* the caller's.
RCanEnter(t) == rOwner \in {NoThread, t}

\* EnterCriticalSection / pthread_mutex_lock: waits until RCanEnter.
REnter(t) ==
  /\ RCanEnter(t)
  /\ rOwner' = t
  /\ rCount' = rCount + 1

\* LeaveCriticalSection / pthread_mutex_unlock, by the owner.
RLeave(t) ==
  /\ rCount' = rCount - 1
  /\ rOwner' = IF rCount = 1 THEN NoThread ELSE rOwner

CallRLock(t) ==
  /\ held[t] < MaxDepth
  /\ Call(t, "rlock_enter")
  /\ UNCHANGED <<frameR, held, rVars>>

\* recursive_mutex::lock()
RLock(t) ==
  /\ REnter(t)
  /\ Return(t, "rlock_enter", "rlock", TRUE)
  /\ held' = [held EXCEPT ![t] = @ + 1]
  /\ UNCHANGED frameR

CallRTryLock(t) ==
  /\ held[t] < MaxDepth
  /\ Call(t, "rtry_enter")
  /\ UNCHANGED <<frameR, held, rVars>>

\* recursive_mutex::try_lock()
RTryLock(t) ==
  /\ IF RCanEnter(t)
     THEN /\ REnter(t)
          /\ Return(t, "rtry_enter", "rtry_lock", TRUE)
          /\ held' = [held EXCEPT ![t] = @ + 1]
     ELSE /\ Return(t, "rtry_enter", "rtry_lock", FALSE)
          /\ UNCHANGED <<held, rVars>>
  /\ UNCHANGED frameR

\* unlock() is called by the owner only, once per lock() of its own.
CallRUnlock(t) ==
  /\ held[t] > 0
  /\ Call(t, "runlock_leave")
  /\ held' = [held EXCEPT ![t] = @ - 1]
  /\ UNCHANGED <<frameR, rVars>>

\* recursive_mutex::unlock()
RUnlock(t) ==
  /\ RLeave(t)
  /\ Return(t, "runlock_leave", "runlock", TRUE)
  /\ UNCHANGED <<frameR, held>>

InitRecursive == InitControl /\ InitObjects

NextRecursive ==
  \E t \in Threads :
    \/ CallRLock(t)
    \/ RLock(t)
    \/ CallRTryLock(t)
    \/ RTryLock(t)
    \/ CallRUnlock(t)
    \/ RUnlock(t)

SpecRecursive == InitRecursive /\ [][NextRecursive]_vars

\* The locks of its own the owner has not yet unlocked, counting an unlock()
\* that is under way.
Outstanding(t) == held[t] + IF pc[t] = "runlock_leave" THEN 1 ELSE 0

\* C4: a thread that has locked the recursive mutex k times locks it again
\* without waiting; while any of its k locks is not yet unlocked no other
\* thread holds the mutex or can enter it; once the k-th unlock() is done the
\* mutex is free for any thread.
C4_RecursiveCounting ==
  /\ Cardinality(Holders) <= 1
  /\ \A t \in Threads :
       Outstanding(t) > 0 =>
         /\ rOwner = t
         /\ rCount = Outstanding(t)
         /\ \A u \in Threads \ {t} : held[u] = 0 /\ ~RCanEnter(u)
         /\ pc[t] = "rlock_enter" => ENABLED RLock(t)
  /\ (\A t \in Threads : Outstanding(t) = 0) =>
       /\ rOwner = NoThread
       /\ \A u \in Threads : pc[u] = "rlock_enter" => ENABLED RLock(u)

\* C4 witness: a thread returned from its third nested lock() while another
\* thread waits in lock() and a third was refused by try_lock().
C4_Witness ==
  \E t, u, w \in Threads :
    /\ t # u /\ u # w /\ t # w
    /\ held[t] = 3 /\ last[t] = "rlock" /\ pc[t] = "idle"
    /\ pc[u] = "rlock_enter"
    /\ pc[w] = "idle" /\ last[w] = "rtry_lock" /\ ret[w] = FALSE

\* ------------------------------------------------------------------------
\* condition_variable, used with one mutex.  posix: pthread_cond_wait,
\* pthread_cond_signal and pthread_cond_broadcast on mHandle.  win32: wait()
\* counts the caller in mWaitersCount, unlocks the mutex, calls _wait() and
\* locks the mutex again; _wait(), notify_one() and notify_all() are declared
\* in the header and defined outside it, and are modelled as specified:
\* notify_one() unblocks exactly one of the waiters if there is any and has
\* no effect otherwise, notify_all() unblocks every waiter, and a waiter is
\* a thread counted in mWaitersCount that no notification has unblocked yet.

\* Threads suspended in _wait() / pthread_cond_wait.
Blocked == {t \in Threads : pc[t] = "w_blocked"}

\* win32: threads counted in mWaitersCount.
Registered ==
  {t \in Threads :
     pc[t] \in {"w_unlock_clear", "w_unlock_leave", "w_wait", "w_blocked"}}

\* The waiters a notification finds: threads in wait() no notification has
\* unblocked yet.
Unwoken == IF backend = "win32" THEN Registered \ mEvents ELSE Blocked

WaitLabels ==
  {"w_inc", "w_cond", "w_unlock_clear", "w_unlock_leave", "w_wait", "w_blocked",
   "w_lock_enter", "w_lock_spin", "w_lock_set", "w_ret"}

\* Labels of wait() at which the caller has unlocked the mutex and not yet
\* started to lock it again.
SuspendedLabels == {"w_wait", "w_blocked"}

\* The client locks the mutex it does not hold.
CvCallLock(t) ==
  /\ held[t] = 0
  /\ CallLock(t)

\* wait(m) is called by a thread that holds m.
CallWait(t) ==
  /\ held[t] = 1
  /\ Call(t, IF backend = "win32" THEN "w_inc" ELSE "w_cond")
  /\ early' = [early EXCEPT ![t] = fired]
  /\ wokenBy' = [wokenBy EXCEPT ![t] = NoThread]
  /\ UNCHANGED <<frameCV, held, mutexVars, cvVars, had, woke, fired>>

\* A wait() that does not count its caller.
WIncSkipped(t) ==
  /\ backend = "win32"
  /\ Step(t, "w_inc", "w_unlock_clear")
  /\ UNCHANGED <<frameCV, held, mutexVars, cvVars, cvHist>>

\* win32: EnterCriticalSection(&mWaitersCountLock); ++ mWaitersCount;
\*        LeaveCriticalSection(&mWaitersCountLock);
WInc(t) ==
  /\ backend = "win32"
  /\ Step(t, "w_inc", "w_unlock_clear")
  /\ mWaitersCount' = mWaitersCount + 1
  /\ UNCHANGED <<frameCV, held, mutexVars, mEvents, cvHist>>

\* win32: aMutex.unlock();
WUnlockClear(t) ==
  /\ UnlockClear(t, "w_unlock_clear", "w_unlock_leave")
  /\ held' = [held EXCEPT ![t] = @ - 1]
  /\ UNCHANGED <<frameCV, last, ret, cvVars, cvHist>>

WUnlockLeave(t) ==
  /\ backend = "win32"
  /\ UnlockLeave(t, "w_unlock_leave", "w_wait")
  /\ UNCHANGED <<frameCV, last, ret, held, cvVars, cvHist>>

\* A pthread_cond_wait that returns at once on a signal sent before it was
\* called.
CondWaitPassing(t) ==
  IF early[t] # {}
  THEN /\ pc' = [pc EXCEPT ![t] = "w_lock_enter"]
       /\ \E n \in early[t] : wokenBy' = [wokenBy EXCEPT ![t] = n]
  ELSE /\ pc' = [pc EXCEPT ![t] = "w_blocked"]
       /\ UNCHANGED wokenBy

\* posix: pthread_cond_wait blocks the caller on the condition, whatever was
\* signalled before.
CondWaitBlock(t) ==
  /\ pc' = [pc EXCEPT ![t] = "w_blocked"]
  /\ UNCHANGED wokenBy

\* posix: pthread_cond_wait(&mHandle, &aMutex.mHandle), first half: unlocks the
\* mutex and blocks on the condition in one step.
WCondWait(t) ==
  /\ backend = "posix"
  /\ pc[t] = "w_cond"
  /\ CondWaitBlock(t)
  /\ UnlockPthread(t)
  /\ held' = [held EXCEPT ![t] = @ - 1]
  /\ UNCHANGED <<frameCV, last, ret, mAlreadyLocked, cvVars, had, woke, fired,
                 early>>

\* posix: pthread_cond_wait may return without a signal (spurious wakeup).
SpuriousWakeup(t) ==
  /\ backend = "posix"
  /\ Step(t, "w_blocked", "w_lock_enter")
  /\ UNCHANGED <<frameCV, held, mutexVars, cvVars, cvHist>>

\* win32, _wait(): the caller goes on when a notification has unblocked it
\* and is suspended otherwise; going on, it is no longer counted.
WWaitEvents(t) ==
  /\ backend = "win32"
  /\ pc[t] = "w_wait"
  /\ IF t \in mEvents
     THEN /\ pc' = [pc EXCEPT ![t] = "w_lock_enter"]
          /\ mEvents' = mEvents \ {t}
          /\ mWaitersCount' = mWaitersCount - 1
     ELSE /\ pc' = [pc EXCEPT ![t] = "w_blocked"]
          /\ UNCHANGED <<mEvents, mWaitersCount>>
  /\ UNCHANGED <<frameCV, last, ret, held, mutexVars, cvHist>>

\* win32, _wait(): a suspended caller is resumed by a notification.
WWaitResume(t) ==
  /\ backend = "win32"
  /\ t \in mEvents
  /\ Step(t, "w_blocked", "w_lock_enter")
  /\ mEvents' = mEvents \ {t}
  /\ mWaitersCount' = mWaitersCount - 1
  /\ UNCHANGED <<frameCV, held, mutexVars, cvHist>>

\* A wait() that goes on without taking the mutex again.
WaitRelockSkipped(t) ==
  /\ Goto(t, "w_lock_enter", "w_ret")
  /\ UNCHANGED mutexVars

\* win32: aMutex.lock();   posix: pthread_cond_wait, second half: the woken
\* thread takes the mutex again.
WaitRelock(t) == LockEnter(t, "w_lock_enter", "w_lock_spin", "w_ret")

WLockEnter(t) ==
  /\ WaitRelock(t)
  /\ UNCHANGED <<frameCV, last, ret, held, cvVars, cvHist>>

WLockSpin(t) ==
  /\ LockSpin(t, "w_lock_spin", "w_lock_set")
  /\ UNCHANGED <<frameCV, last, ret, held, cvVars, cvHist>>

WLockSet(t) ==
  /\ LockSet(t, "w_lock_set", "w_ret")
  /\ UNCHANGED <<frameCV, last, ret, held, cvVars, cvHist>>

\* wait() returns: the caller holds the mutex again.
WReturn(t) ==
  /\ Return(t, "w_ret", "wait", TRUE)
  /\ held' = [held EXCEPT ![t] = @ + 1]
  /\ early' = [early EXCEPT ![t] = {}]
  /\ wokenBy' = [wokenBy EXCEPT ![t] = NoThread]
  /\ UNCHANGED <<frameCV, mutexVars, cvVars, had, woke, fired>>

\* What a notification by t found and did: the waiters not yet woken before
\* it, and those of them woken after it.
Noted(t) ==
  /\ had' = [had EXCEPT ![t] = Cardinality(Unwoken)]
  /\ woke' = [woke EXCEPT ![t] = Cardinality(Unwoken \ Unwoken')]
  /\ fired' = fired \cup {t}
  /\ wokenBy' = [w \in Threads |->
                   IF w \in Unwoken \ Unwoken' THEN t ELSE wokenBy[w]]
  /\ UNCHANGED early

\* A new notify call by t: no wait() has been called after it.
NotifyCalled(t) ==
  /\ fired' = fired \ {t}
  /\ early' = [w \in Threads |-> early[w] \ {t}]
  /\ UNCHANGED <<had, woke, wokenBy>>

CallNotifyOne(t) ==
  /\ Call(t, "n1_signal")
  /\ NotifyCalled(t)
  /\ UNCHANGED <<frameCV, held, mutexVars, cvVars>>

\* win32, notify_one(): one of the waiters, if there is any, is unblocked.
NotifyOneEvents(t) ==
  /\ pc' = [pc EXCEPT ![t] = "n1_ret"]
  /\ IF Unwoken # {}
     THEN \E w \in Unwoken : mEvents' = mEvents \cup {w}
     ELSE UNCHANGED mEvents

\* A pthread_cond_signal that wakes nobody.
SignalPthreadLost(t) ==
  /\ pc' = [pc EXCEPT ![t] = "n1_ret"]
  /\ UNCHANGED mEvents

\* posix: pthread_cond_signal(&mHandle): wakes one of the blocked threads, if
\* any.
SignalPthread(t) ==
  /\ IF Blocked # {}
     THEN \E w \in Blocked :
            pc' = [pc EXCEPT ![t] = "n1_ret", ![w] = "w_lock_enter"]
     ELSE pc' = [pc EXCEPT ![t] = "n1_ret"]
  /\ UNCHANGED mEvents

\* notify_one().
N1Signal(t) ==
  /\ pc[t] = "n1_signal"
  /\ IF backend = "win32" THEN NotifyOneEvents(t) ELSE SignalPthread(t)
  /\ UNCHANGED <<frameCV, last, ret, held, mutexVars, mWaitersCount>>
  /\ Noted(t)

N1Return(t) ==
  /\ Return(t, "n1_ret", "notify_one", TRUE)
  /\ had' = [had EXCEPT ![t] = 0]
  /\ woke' = [woke EXCEPT ![t] = 0]
  /\ UNCHANGED <<frameCV, held, mutexVars, cvVars, eligVars>>

CallNotifyAll(t) ==
  /\ Call(t, "na_signal")
  /\ NotifyCalled(t)
  /\ UNCHANGED <<frameCV, held, mutexVars, cvVars>>

\* win32, notify_all(): every waiter is unblocked.
NotifyAllEvents(t) ==
  /\ pc' = [pc EXCEPT ![t] = "na_ret"]
  /\ mEvents' = mEvents \cup Unwoken

\* A pthread_cond_broadcast that wakes one blocked thread only.
BroadcastPthreadOne(t) ==
  /\ IF Blocked # {}
     THEN \E w \in Blocked :
            pc' = [pc EXCEPT ![t] = "na_ret", ![w] = "w_lock_enter"]
     ELSE pc' = [pc EXCEPT ![t] = "na_ret"]
  /\ UNCHANGED mEvents

\* posix: pthread_cond_broadcast(&mHandle): wakes every blocked thread.
BroadcastPthread(t) ==
  /\ pc' = [u \in Threads |->
              IF u = t THEN "na_ret"
              ELSE IF pc[u] = "w_blocked" THEN "w_lock_enter" ELSE pc[u]]
  /\ UNCHANGED mEvents

\* notify_all().
NABroadcast(t) ==
  /\ pc[t] = "na_signal"
  /\ IF backend = "win32" THEN NotifyAllEvents(t) ELSE BroadcastPthread(t)
  /\ UNCHANGED <<frameCV, last, ret, held, mutexVars, mWaitersCount>>
  /\ Noted(t)

NAReturn(t) ==
  /\ Return(t, "na_ret", "notify_all", TRUE)
  /\ had' = [had EXCEPT ![t] = 0]
  /\ woke' = [woke EXCEPT ![t] = 0]
  /\ UNCHANGED <<frameCV, held, mutexVars, cvVars, eligVars>>

\* The statements inside wait().
WaitSteps(t) ==
  \/ WInc(t)
  \/ WUnlockClear(t)
  \/ WUnlockLeave(t)
  \/ WCondWait(t)
  \/ WWaitEvents(t)
  \/ WWaitResume(t)
  \/ WLockEnter(t)
  \/ WLockSpin(t)
  \/ WLockSet(t)
  \/ WReturn(t)

InitCV == InitControl /\ InitObjects

NextCV ==
  \E t \in Threads :
    \/ CvCallLock(t)
    \/ MLockEnter(t)
    \/ MLockSpin(t)
    \/ MLockSet(t)
    \/ MLockReturn(t)
    \/ CallUnlock(t)
    \/ MUnlockClear(t)
    \/ MUnlockLeave(t)
    \/ CallWait(t)
    \/ WaitSteps(t)
    \/ SpuriousWakeup(t)
    \/ CallNotifyOne(t)
    \/ N1Signal(t)
    \/ N1Return(t)
    \/ CallNotifyAll(t)
    \/ NABroadcast(t)
    \/ NAReturn(t)

SpecCV == InitCV /\ [][NextCV]_vars

\* C5: a thread inside wait(m) that has unlocked m and not yet started to
\* lock it again does not own m; a thread that returned from wait(m) holds m
\* and owns the native lock; no two threads hold m.
C5_WaitReleasesAndReacquires ==
  /\ Cardinality(Holders) <= 1
  /\ \A t \in Threads :
       /\ held[t] > 0 => mOwner = t
       /\ pc[t] \in SuspendedLabels => (mOwner # t /\ held[t] = 0)
       /\ (pc[t] = "idle" /\ last[t] = "wait") => (held[t] = 1 /\ mOwner = t)

\* C5 witness: one thread is suspended in wait(m) while another, returned
\* from wait(m), holds m.
C5_Witness ==
  \E a, b \in Threads :
    /\ a # b
    /\ pc[a] = "w_blocked"
    /\ held[b] = 1 /\ pc[b] = "idle" /\ last[b] = "wait"

TargetCount == 5

Consumer == 1
Producer == 2

\* What a step of the client code between two calls leaves alone.
frameClient ==
  <<backend, orderVars, pc, last, ret, held, mutexVars, rVars, cvVars, cvHist,
    flagVars, atomVars, result, threadVars, guardVars, pre>>

\* Consumer: lock_guard<mutex> guard(m);
ConsLock(t) ==
  /\ t = Consumer
  /\ cprog = "start"
  /\ CvCallLock(t)

\* Consumer: while(count < TargetCount) cond.wait(m);  the test succeeds.
ConsWait(t) ==
  /\ t = Consumer
  /\ cprog = "start"
  /\ count < TargetCount
  /\ CallWait(t)

\* Consumer: the test of the loop fails with m held: the loop is left.
ConsExit(t) ==
  /\ t = Consumer
  /\ cprog = "start"
  /\ pc[t] = "idle"
  /\ held[t] = 1
  /\ ~(count < TargetCount)
  /\ cprog' = "exit"
  /\ seen' = count
  /\ UNCHANGED <<frameClient, count, pprog, iter>>

\* Consumer: the guard goes out of scope and unlocks m.
ConsUnlock(t) ==
  /\ t = Consumer
  /\ cprog = "exit"
  /\ CallUnlock(t)

\* Producer: lock_guard<mutex> guard(m), once per iteration.
ProdLock(t) ==
  /\ t = Producer
  /\ pprog = "lock"
  /\ iter < TargetCount
  /\ CvCallLock(t)

\* Producer: ++ count;
ProdInc(t) ==
  /\ t = Producer
  /\ pprog = "lock"
  /\ pc[t] = "idle"
  /\ held[t] = 1
  /\ count' = count + 1
  /\ pprog' = "notify"
  /\ UNCHANGED <<frameClient, cprog, iter, seen>>

\* Producer: cond.notify_one();
ProdNotify(t) ==
  /\ t = Producer
  /\ pprog = "notify"
  /\ held[t] = 1
  /\ last[t] # "notify_one"
  /\ CallNotifyOne(t)

\* Producer: the guard goes out of scope and unlocks m.
ProdUnlock(t) ==
  /\ t = Producer
  /\ pprog = "notify"
  /\ last[t] = "notify_one"
  /\ CallUnlock(t)

\* Producer: the iteration is over.
ProdNext(t) ==
  /\ t = Producer
  /\ pprog = "notify"
  /\ pc[t] = "idle"
  /\ held[t] = 0
  /\ pprog' = "lock"
  /\ iter' = iter + 1
  /\ UNCHANGED <<frameClient, count, cprog, seen>>

\* The statements of a thread that the scheduler runs when they can run.
ExampleStep(t) ==
  \/ ConsLock(t)
  \/ ConsWait(t)
  \/ ConsExit(t)
  \/ ConsUnlock(t)
  \/ ProdLock(t)
  \/ ProdInc(t)
  \/ ProdNotify(t)
  \/ ProdUnlock(t)
  \/ ProdNext(t)
  \/ MLockEnter(t)
  \/ MLockSpin(t)
  \/ MLockSet(t)
  \/ MLockReturn(t)
  \/ MUnlockClear(t)
  \/ MUnlockLeave(t)
  \/ WaitSteps(t)
  \/ N1Signal(t)
  \/ N1Return(t)

InitExampleRun == InitControl /\ InitObjects

NextExample ==
  \E t \in Threads :
    \/ ExampleStep(t)
    \/ SpuriousWakeup(t)

\* Fair scheduling: a thread whose next statement can run again and again
\* does run it; a spurious wakeup may happen and is never bound to.
FairExample == \A t \in Threads : SF_vars(ExampleStep(t))

SpecExample == InitExampleRun /\ [][NextExample]_vars /\ FairExample

\* C8: the consumer leaves its loop in the end, and when it does the counter
\* is at its target.
C8_ProducerConsumer ==
  /\ [](cprog = "exit" => (seen = TargetCount /\ count = TargetCount))
  /\ <>(cprog = "exit")

\* C8 witness: the consumer has left its loop on returning from wait(), the
\* counter at its target.
C8_Witness ==
  /\ cprog = "exit"
  /\ pc[Consumer] = "idle" /\ last[Consumer] = "wait"
  /\ seen = TargetCount

\* ------------------------------------------------------------------------
\* lock_guard<mutex> guard(mLock) inside an atomic operation compiled without
\* builtins and assembly: the mutex of this model is the object's mLock.

\* A guard that keeps the mutex and does not lock it.
GuardLockSkipped(t, from, spin, done) ==
  /\ Goto(t, from, done)
  /\ UNCHANGED mutexVars

\* lock_guard(aMutex): mMutex->lock().
GuardLock(t, from, spin, done) == LockEnter(t, from, spin, done)

GuardEnter(t, from, spin, done) ==
  /\ GuardLock(t, from, spin, done)
  /\ UNCHANGED <<frameA, last, ret, flagVars, atomVars, result>>

GuardSpin(t, at, to) ==
  /\ LockSpin(t, at, to)
  /\ UNCHANGED <<frameA, last, ret, flagVars, atomVars, result>>

GuardSet(t, from, to) ==
  /\ LockSet(t, from, to)
  /\ UNCHANGED <<frameA, last, ret, flagVars, atomVars, result>>

\* ~lock_guard(): mMutex->unlock().  posix has the one statement.
GuardUnlockClear(t, from, to, done) ==
  /\ IF backend = "win32"
     THEN UnlockClear(t, from, to)
     ELSE UnlockLeave(t, from, done)
  /\ UNCHANGED <<frameA, last, ret, flagVars, atomVars, result>>

GuardUnlockLeave(t, from, to) ==
  /\ backend = "win32"
  /\ UnlockLeave(t, from, to)
  /\ UNCHANGED <<frameA, last, ret, flagVars, atomVars, result>>

\* ------------------------------------------------------------------------
\* atomic_flag, used as a spin lock: while(f.test_and_set()) ; ... f.clear();

\* The ways test_and_set() and clear() are compiled: __sync builtins, xchg in
\* GNU or MSVC inline assembly, lwarx/stwcx. on PowerPC, or under mLock.
FlagPaths == {"builtin", "x86", "msvc", "ppc", "mutex"}

ExchangePaths == {"builtin", "x86", "msvc"}

\* A conversion to bool that keeps the lowest bit only.
ToBoolLowBit(v) == v % 2 = 1

\* static_cast<bool>(result)
ToBool(v) == v # 0

\* Thread t is inside the spin lock: its test_and_set() returned false and it
\* has not called clear() since.
InCS(t) ==
  /\ pc[t] = "idle"
  /\ last[t] = "test_and_set"
  /\ ret[t] = FALSE

\* Labels of clear() before it has written mFlag.
ClearPending ==
  {"clr_op", "clr_lock_enter", "clr_lock_spin", "clr_lock_set", "clr_write"}

\* Thread t has taken the flag and not yet given it back.
Winner(t) ==
  \/ pc[t] = "tas_ret" /\ result[t] = 0
  \/ InCS(t)
  \/ pc[t] \in ClearPending

\* A store to mFlag by any processor ends every reservation on it.
NoReservation == [u \in Threads |-> FALSE]

\* f.test_and_set() is called by a thread outside the spin lock.
CallTestAndSet(t) ==
  /\ ~InCS(t)
  /\ Call(t, IF flagPath \in ExchangePaths THEN "tas_op"
             ELSE IF flagPath = "ppc" THEN "tas_lwarx" ELSE "tas_lock_enter")
  /\ UNCHANGED <<frameA, mutexVars, flagVars, atomVars, result>>

\* __sync_lock_test_and_set(&mFlag, 1), or mov eax,1; xchg eax,mFlag;
\* mov result,eax: one atomic exchange.
TasExchange(t) ==
  /\ flagPath \in ExchangePaths
  /\ Step(t, "tas_op", "tas_ret")
  /\ result' = [result EXCEPT ![t] = mFlag]
  /\ old' = [old EXCEPT ![t] = mFlag]
  /\ mFlag' = 1
  /\ UNCHANGED <<frameA, mutexVars, flagPath, resv, atomVars>>

\* ppc: 1: lwarx result,0,&mFlag; cmpwi 0,result,0; bne- 2f
TasLwarx(t) ==
  /\ flagPath = "ppc"
  /\ Step(t, "tas_lwarx", IF mFlag # 0 THEN "tas_ret" ELSE "tas_stwcx")
  /\ result' = [result EXCEPT ![t] = mFlag]
  /\ old' = [old EXCEPT ![t] = mFlag]
  /\ resv' = [resv EXCEPT ![t] = TRUE]
  /\ UNCHANGED <<frameA, mutexVars, flagPath, mFlag, atomVars>>

\* A store-conditional that stores whether or not the reservation is held.
StwcxAnyway(t) == TRUE

\* stwcx. can store only while the reservation taken by lwarx is held.
StwcxCanStore(t) == resv[t]

\* ppc: stwcx. newFlag,0,&mFlag; bne- 1b; isync.  The store may fail with the
\* reservation held too (it can be lost to an interrupt).
TasStwcx(t) ==
  /\ flagPath = "ppc"
  /\ pc[t] = "tas_stwcx"
  /\ \/ /\ StwcxCanStore(t)
        /\ pc' = [pc EXCEPT ![t] = "tas_ret"]
        /\ old' = [old EXCEPT ![t] = mFlag]
        /\ mFlag' = 1
        /\ resv' = NoReservation
     \/ /\ pc' = [pc EXCEPT ![t] = "tas_lwarx"]
        /\ resv' = [resv EXCEPT ![t] = FALSE]
        /\ UNCHANGED <<old, mFlag>>
  /\ UNCHANGED <<frameA, last, ret, mutexVars, flagPath, atomVars, result>>

\* fallback: lock_guard<mutex> guard(mLock);
TasLockEnter(t) ==
  /\ flagPath = "mutex"
  /\ GuardEnter(t, "tas_lock_enter", "tas_lock_spin", "tas_read")

TasLockSpin(t) == GuardSpin(t, "tas_lock_spin", "tas_lock_set")

TasLockSet(t) == GuardSet(t, "tas_lock_set", "tas_read")

\* fallback: int result = mFlag;
TasRead(t) ==
  /\ Step(t, "tas_read", "tas_write")
  /\ result' = [result EXCEPT ![t] = mFlag]
  /\ UNCHANGED <<frameA, mutexVars, flagVars, atomVars>>

\* fallback: mFlag = 1;
TasWrite(t) ==
  /\ Step(t, "tas_write", "tas_unlock")
  /\ old' = [old EXCEPT ![t] = mFlag]
  /\ mFlag' = 1
  /\ UNCHANGED <<frameA, mutexVars, flagPath, resv, atomVars, result>>

\* fallback: the guard unlocks mLock.
TasUnlock(t) == GuardUnlockClear(t, "tas_unlock", "tas_unlock_leave", "tas_ret")

TasUnlockLeave(t) == GuardUnlockLeave(t, "tas_unlock_leave", "tas_ret")

\* return static_cast<bool>(result); the local is gone.
TasReturn(t) ==
  /\ Return(t, "tas_ret", "test_and_set", ToBool(result[t]))
  /\ result' = [result EXCEPT ![t] = 0]
  /\ old' = [old EXCEPT ![t] = 0]
  /\ UNCHANGED <<frameA, mutexVars, flagPath, mFlag, resv, atomVars>>

\* f.clear() is called by the thread inside the spin lock.
CallClear(t) ==
  /\ InCS(t)
  /\ Call(t, IF flagPath = "mutex" THEN "clr_lock_enter" ELSE "clr_op")
  /\ UNCHANGED <<frameA, mutexVars, flagVars, atomVars, result>>

\* __sync_lock_release(&mFlag), or mov eax,0; xchg eax,mFlag, or (ppc) sync;
\* mFlag = 0: one store.
ClearStore(t) ==
  /\ flagPath # "mutex"
  /\ Step(t, "clr_op", "clr_ret")
  /\ mFlag' = 0
  /\ resv' = NoReservation
  /\ UNCHANGED <<frameA, mutexVars, flagPath, old, atomVars, result>>

\* fallback: lock_guard<mutex> guard(mLock);
ClearLockEnter(t) ==
  /\ flagPath = "mutex"
  /\ GuardEnter(t, "clr_lock_enter", "clr_lock_spin", "clr_write")

ClearLockSpin(t) == GuardSpin(t, "clr_lock_spin", "clr_lock_set")

ClearLockSet(t) == GuardSet(t, "clr_lock_set", "clr_write")

\* fallback: mFlag = 0;
ClearWrite(t) ==
  /\ Step(t, "clr_write", "clr_unlock")
  /\ mFlag' = 0
  /\ UNCHANGED <<frameA, mutexVars, flagPath, resv, old, atomVars, result>>

ClearUnlock(t) == GuardUnlockClear(t, "clr_unlock", "clr_unlock_leave", "clr_ret")

ClearUnlockLeave(t) == GuardUnlockLeave(t, "clr_unlock_leave", "clr_ret")

ClearReturn(t) ==
  /\ Return(t, "clr_ret", "clear", TRUE)
  /\ UNCHANGED <<frameA, mutexVars, flagVars, atomVars, result>>

\* MSVC inline assembly is a win32 build, PowerPC with gcc a posix one.
InitFlag ==
  /\ InitControl
  /\ flagPath \in FlagPaths
  /\ flagPath = "msvc" => backend = "win32"
  /\ flagPath = "ppc" => backend = "posix"
  /\ atomPath = "builtin"
  /\ desired = 0
  /\ plain = FALSE
  /\ InitIncrements
  /\ InitShared

NextFlag ==
  \E t \in Threads :
    \/ CallTestAndSet(t)
    \/ TasExchange(t)
    \/ TasLwarx(t)
    \/ TasStwcx(t)
    \/ TasLockEnter(t)
    \/ TasLockSpin(t)
    \/ TasLockSet(t)
    \/ TasRead(t)
    \/ TasWrite(t)
    \/ TasUnlock(t)
    \/ TasUnlockLeave(t)
    \/ TasReturn(t)
    \/ CallClear(t)
    \/ ClearStore(t)
    \/ ClearLockEnter(t)
    \/ ClearLockSpin(t)
    \/ ClearLockSet(t)
    \/ ClearWrite(t)
    \/ ClearUnlock(t)
    \/ ClearUnlockLeave(t)
    \/ ClearReturn(t)

SpecFlag == InitFlag /\ [][NextFlag]_vars

\* C9: a test_and_set() about to return has read the value mFlag held right
\* before it set the flag; at most one thread has taken the flag and not
\* given it back, so at most one is inside the spin lock; the flag is set
\* while a thread has it, and a clear flag is taken by the next
\* test_and_set().
C9_TestAndSetAtomic ==
  /\ \A t \in Threads : pc[t] = "tas_ret" => result[t] = old[t]
  /\ Cardinality({t \in Threads : Winner(t)}) <= 1
  /\ \A t \in Threads : Winner(t) => mFlag = 1

\* C9 witness: one thread is inside the spin lock, a second is about to
\* return true from test_and_set(), and a third has been inside before.
C9_Witness ==
  \E a, b, c \in Threads :
    /\ InCS(a)
    /\ pc[b] = "tas_ret" /\ result[b] = 1
    /\ pc[c] = "idle" /\ last[c] = "clear"

\* ------------------------------------------------------------------------
\* atomic<int>: ++x, x++ and x.fetch_add(1) by every thread.

IntBits == 32

\* The largest and the smallest int.
IntMax == (2^(IntBits - 2) - 1) + 2^(IntBits - 2)
IntMin == (-IntMax) - 1

\* a + b in an int, for a small positive b: past the largest int the sum
\* goes on from the smallest.
AddInt(a, b) ==
  IF a > IntMax - b THEN IntMin + ((a - (IntMax - b)) - 1) ELSE a + b

\* a - b in an int, for a small positive b: past the smallest int the
\* difference goes on from the largest.
SubInt(a, b) ==
  IF a < IntMin + b THEN IntMax - (((IntMin + b) - a) - 1) ELSE a - b

\* The calls that end in fetch_sub; the others end in fetch_add.
SubOps == {"fetch_sub", "predec", "postdec"}

\* A fetch_sub that adds, as fetch_add does.
ModifiedAdding(op, v, a) == AddInt(v, a)

\* What the call op makes of the value v with the argument a.
Modified(op, v, a) == IF op \in SubOps THEN SubInt(v, a) ELSE AddInt(v, a)

AtomPaths == {"builtin", "mutex"}

IncOps == {"pre", "post", "fetch_add"}

\* The values an atomic<int> starts from: atomic() and atomic(T desired).
StartValue == 41

InitValues == {0, StartValue}

\* An operator++() and operator--() that return what fetch_add(1) and
\* fetch_sub(1) return.
IncResultBefore(op, r) == r

\* ++x is fetch_add(1) + 1 and --x is fetch_sub(1) - 1; x++, x-- and the
\* fetch calls return what fetch_add / fetch_sub return.
IncResult(op, r) ==
  IF op = "pre" THEN AddInt(r, 1)
  ELSE IF op = "predec" THEN SubInt(r, 1)
  ELSE r

\* v + a or v - a, as op computes it, does not fit an int.  In the int
\* arithmetic of the operators and of mValue += arg the overflow is undefined:
\* the build wraps the value or, built to trap on overflow, ends the process.
\* The __sync builtins wrap.
Overflows(op, v, a) ==
  IF op \in SubOps THEN v < IntMin + a ELSE v > IntMax - a

\* The process is ended by a trap in thread t.
Trap(t, from) ==
  /\ pc[t] = from
  /\ pc' = [pc EXCEPT ![t] = "trapped"]
  /\ UNCHANGED <<last, ret>>

\* No thread has trapped: the process runs.
NoTrap == \A t \in Threads : pc[t] # "trapped"

\* A thread calls one of the increments; all of them call fetch_add(1).
CallInc(t) ==
  /\ left[t] > 0
  /\ \E op \in IncOps :
       /\ Goto(t, "idle", IF atomPath = "builtin" THEN "fa_op" ELSE "fa_lock_enter")
       /\ last' = [last EXCEPT ![t] = op]
  /\ ret' = [ret EXCEPT ![t] = FALSE]
  /\ left' = [left EXCEPT ![t] = @ - 1]
  /\ arg' = [arg EXCEPT ![t] = 1]
  /\ UNCHANGED <<frameA, mutexVars, flagVars, atomPath, desired, mValue, tmp,
                 result, before, wrote, rets, plain, writer, saw>>

\* __sync_fetch_and_add(&mValue, arg) / __sync_fetch_and_sub(&mValue, arg):
\* one atomic read-modify-write.
FetchAndAdd(t) ==
  /\ atomPath = "builtin"
  /\ Step(t, "fa_op", "fa_ret")
  /\ result' = [result EXCEPT ![t] = mValue]
  /\ mValue' = Modified(last[t], mValue, arg[t])
  /\ before' = [before EXCEPT ![t] = mValue]
  /\ wrote' = [wrote EXCEPT ![t] = mValue']
  /\ writer' = t
  /\ UNCHANGED <<frameA, mutexVars, flagVars, atomPath, desired, tmp, left,
                 arg, rets, plain, saw>>

\* fallback: lock_guard<mutex> guard(mLock);
FaLockEnter(t) ==
  /\ atomPath = "mutex"
  /\ GuardEnter(t, "fa_lock_enter", "fa_lock_spin", "fa_read")

FaLockSpin(t) == GuardSpin(t, "fa_lock_spin", "fa_lock_set")

FaLockSet(t) == GuardSet(t, "fa_lock_set", "fa_read")

\* fallback: T result = mValue;
FaRead(t) ==
  /\ Step(t, "fa_read", "fa_load")
  /\ result' = [result EXCEPT ![t] = mValue]
  /\ UNCHANGED <<frameA, mutexVars, flagVars, atomVars>>

\* fallback: mValue += arg; / mValue -= arg; the load of the volatile mValue.
FaLoad(t) ==
  /\ Step(t, "fa_load", "fa_store")
  /\ tmp' = [tmp EXCEPT ![t] = mValue]
  /\ UNCHANGED <<frameA, mutexVars, flagVars, atomPath, desired, mValue, left,
                 result, fetchVars>>

\* fallback: mValue += arg; / mValue -= arg; the store.
FaStore(t) ==
  /\ \/ /\ Step(t, "fa_store", "fa_unlock")
        /\ mValue' = Modified(last[t], tmp[t], arg[t])
        /\ before' = [before EXCEPT ![t] = mValue]
        /\ wrote' = [wrote EXCEPT ![t] = mValue']
        /\ writer' = t
     \/ /\ pc[t] = "fa_store"
        /\ Overflows(last[t], tmp[t], arg[t])
        /\ Trap(t, "fa_store")
        /\ UNCHANGED <<mValue, before, wrote, writer>>
  /\ UNCHANGED <<frameA, mutexVars, flagVars, atomPath, desired, tmp, left,
                 result, arg, rets, plain, saw>>

FaUnlock(t) == GuardUnlockClear(t, "fa_unlock", "fa_unlock_leave", "fa_ret")

FaUnlockLeave(t) == GuardUnlockLeave(t, "fa_unlock_leave", "fa_ret")

\* return result; the operator adds its one; the locals are gone.
FaReturn(t) ==
  /\ \/ /\ Goto(t, "fa_ret", "idle")
        /\ ret' = [ret EXCEPT ![t] = IncResult(last[t], result[t])]
        /\ UNCHANGED last
     \/ /\ pc[t] = "fa_ret"
        /\ last[t] \in {"pre", "predec"}
        /\ Overflows(last[t], result[t], 1)
        /\ Trap(t, "fa_ret")
  /\ result' = [result EXCEPT ![t] = 0]
  /\ tmp' = [tmp EXCEPT ![t] = 0]
  /\ arg' = [arg EXCEPT ![t] = 0]
  /\ before' = [before EXCEPT ![t] = 0]
  /\ wrote' = [wrote EXCEPT ![t] = 0]
  /\ rets' = IF plain THEN rets \cup {result[t]} ELSE rets
  /\ UNCHANGED <<frameA, mutexVars, flagVars, atomPath, desired, mValue,
                 left, plain, writer, saw>>

InitAtomic ==
  /\ InitControl
  /\ flagPath = "builtin"
  /\ atomPath \in AtomPaths
  /\ desired \in InitValues
  /\ plain = FALSE
  /\ InitIncrements
  /\ InitShared

NextAtomic ==
  \E t \in Threads :
    \/ CallInc(t)
    \/ FetchAndAdd(t)
    \/ FaLockEnter(t)
    \/ FaLockSpin(t)
    \/ FaLockSet(t)
    \/ FaRead(t)
    \/ FaLoad(t)
    \/ FaStore(t)
    \/ FaUnlock(t)
    \/ FaUnlockLeave(t)
    \/ FaReturn(t)

SpecAtomic == InitAtomic /\ [][NextAtomic]_vars

\* Threads whose every increment has completed.
Finished == {t \in Threads : pc[t] = "idle" /\ left[t] = 0}

\* Increments called so far, and those among them that have not yet written.
Called ==
  NThreads * PerThread
    - Cardinality({p \in Threads \X (1..PerThread) : p[2] <= left[p[1]]})

Unwritten ==
  Cardinality({t \in Threads :
                 pc[t] \in {"fa_op", "fa_lock_enter", "fa_lock_spin",
                            "fa_lock_set", "fa_read", "fa_load", "fa_store"}})

\* C10: the value is the initial value plus the increments that have
\* written, at every moment; so once all N increments have completed it is
\* the initial value plus N.
C10_NoLostUpdates ==
  /\ mValue = AddInt(desired, Called - Unwritten)
  /\ Finished = Threads => mValue = AddInt(desired, NThreads * PerThread)

\* C10 witness: all increments are done, the last of them a ++x that
\* returned the final value, on the mutex-guarded path.
C10_Witness ==
  /\ Finished = Threads
  /\ atomPath = "mutex"
  /\ \E t \in Threads : last[t] = "pre" /\ ret[t] = mValue
  /\ \E t \in Threads : last[t] = "post"

\* ------------------------------------------------------------------------
\* atomic<int>: x.fetch_add(a) and x.fetch_sub(a) by every thread.

FetchOps == {"fetch_add", "fetch_sub"}

\* The arguments the threads pass.
MaxArg == 2

FetchArgs == 1..MaxArg

\* A thread calls fetch_add(a) or fetch_sub(a), once.
CallFetch(t) ==
  /\ left[t] > 0
  /\ \E op \in FetchOps, a \in FetchArgs :
       /\ Goto(t, "idle", IF atomPath = "builtin" THEN "fa_op" ELSE "fa_lock_enter")
       /\ last' = [last EXCEPT ![t] = op]
       /\ arg' = [arg EXCEPT ![t] = a]
       /\ plain' = (plain /\ op = "fetch_add" /\ a = 1)
       /\ rets' = IF plain' THEN rets ELSE {}
  /\ ret' = [ret EXCEPT ![t] = FALSE]
  /\ left' = [left EXCEPT ![t] = @ - 1]
  /\ UNCHANGED <<frameA, mutexVars, flagVars, atomPath, desired, mValue, tmp,
                 result, before, wrote, writer, saw>>

InitFetch ==
  /\ InitControl
  /\ flagPath = "builtin"
  /\ atomPath \in AtomPaths
  /\ desired \in InitValues
  /\ plain = TRUE
  /\ left = [t \in Threads |-> 1]
  /\ InitShared

NextFetch ==
  \E t \in Threads :
    \/ CallFetch(t)
    \/ FetchAndAdd(t)
    \/ FaLockEnter(t)
    \/ FaLockSpin(t)
    \/ FaLockSet(t)
    \/ FaRead(t)
    \/ FaLoad(t)
    \/ FaStore(t)
    \/ FaUnlock(t)
    \/ FaUnlockLeave(t)
    \/ FaReturn(t)

SpecFetch == InitFetch /\ [][NextFetch]_vars

\* Threads whose call has written mValue and not yet returned.
Written == {t \in Threads : pc[t] \in {"fa_unlock", "fa_unlock_leave", "fa_ret"}}

\* The calls that have written mValue.
Writes == Cardinality({t \in Threads : left[t] = 0}) - Unwritten

\* C11: a fetch_add(a)/fetch_sub(a) that has written is about to return the
\* value the cell held right before its write, and wrote that value plus
\* (minus) a; while only fetch_add(1) is called, the values returned or
\* about to be returned are the initial value and the next ones, one for
\* each call that has written, none twice.
C11_FetchReturnsPrevious ==
  /\ \A t \in Written :
       /\ result[t] = before[t]
       /\ wrote[t] = IF last[t] = "fetch_sub"
                     THEN SubInt(before[t], arg[t])
                     ELSE AddInt(before[t], arg[t])
  /\ plain =>
       /\ rets \cup {result[t] : t \in Written}
            = {desired + i : i \in 0..(Writes - 1)}
       /\ Cardinality(rets) = Writes - Cardinality(Written)

\* C11 witness: every thread has made its call, all of them fetch_add(1),
\* on the mutex-guarded path, and the values returned are the initial value
\* and the next ones.
C11_Witness ==
  /\ plain
  /\ atomPath = "mutex"
  /\ Finished = Threads
  /\ rets = {desired + i : i \in 0..(NThreads - 1)}

\* ------------------------------------------------------------------------
\* class thread: the objects of one owning thread and the executions they
\* start.  Only the default constructor is defined in the header; the
\* starting constructor, the destructor, join(), joinable() and detach() are
\* declared there and modelled as specified.  The start routine sets a flag
\* shared with the owning thread and returns.

frameT ==
  <<backend, orderVars, pc, last, ret, held, mutexVars, rVars, cvVars, cvHist, scenVars,
    flagVars, atomVars, result, guardVars, pre>>

\* The owning thread is running: not blocked in join(), process not
\* terminated.
OwnerRuns == joining = NoHandle /\ ~terminated

\* bool thread::joinable() const
joinable(h) == mHandle[h] # 0

\* A default constructor that leaves mHandle as it finds it.
ThreadDefaultUnset(h) ==
  /\ OwnerRuns
  /\ hLife[h] = "unborn"
  /\ hLife' = [hLife EXCEPT ![h] = "live"]
  /\ mHandle' = [mHandle EXCEPT ![h] = 1]
  /\ UNCHANGED <<frameT, assoc, retired, routine, flagMem, flagView, joining,
                 joined, terminated>>

\* thread() : mHandle(0), mWrapper(0)
ThreadDefault(h) ==
  /\ OwnerRuns
  /\ hLife[h] = "unborn"
  /\ hLife' = [hLife EXCEPT ![h] = "live"]
  /\ mHandle' = [mHandle EXCEPT ![h] = 0]
  /\ UNCHANGED <<frameT, assoc, retired, routine, flagMem, flagView, joining,
                 joined, terminated>>

\* thread(aFunction, aArg): the routine starts running at once, the object
\* is joinable.
ThreadStart(h) ==
  /\ OwnerRuns
  /\ hLife[h] = "unborn"
  /\ hLife' = [hLife EXCEPT ![h] = "live"]
  /\ mHandle' = [mHandle EXCEPT ![h] = h]
  /\ assoc' = [assoc EXCEPT ![h] = TRUE]
  /\ routine' = [routine EXCEPT ![h] = "running"]
  /\ UNCHANGED <<frameT, retired, flagMem, flagView, joining, joined, terminated>>

\* The routine of h's execution: flag = true;
RoutineWrite(h) ==
  /\ ~terminated
  /\ routine[h] = "running"
  /\ routine' = [routine EXCEPT ![h] = "wrote"]
  /\ flagMem' = [flagMem EXCEPT ![h] = TRUE]
  /\ UNCHANGED <<frameT, hLife, mHandle, assoc, retired, flagView, joining,
                 joined, terminated>>

\* The routine returns.
RoutineReturn(h) ==
  /\ ~terminated
  /\ routine[h] = "wrote"
  /\ routine' = [routine EXCEPT ![h] = "returned"]
  /\ UNCHANGED <<frameT, hLife, mHandle, assoc, retired, flagMem, flagView,
                 joining, joined, terminated>>

\* Without synchronisation the write reaches the owning thread at some time
\* or other.
Propagate(h) ==
  /\ ~terminated
  /\ flagView[h] # flagMem[h]
  /\ flagView' = [flagView EXCEPT ![h] = flagMem[h]]
  /\ UNCHANGED <<frameT, hLife, mHandle, assoc, retired, routine, flagMem,
                 joining, joined, terminated>>

\* join() is called on a joinable object: the owning thread blocks.
JoinCall(h) ==
  /\ OwnerRuns
  /\ hLife[h] = "live"
  /\ joinable(h)
  /\ joining' = h
  /\ UNCHANGED <<frameT, hLife, mHandle, assoc, retired, routine, flagMem,
                 flagView, joined, terminated>>

\* A join() that does not wait for its target.
TargetAnywhere(h) == TRUE

\* The target of join() has finished: its routine has returned.
TargetReturned(h) == routine[h] = "returned"

\* join() returns once the routine has returned: what the routine wrote is
\* visible to the owning thread, the object is no longer joinable.
JoinReturn(h) ==
  /\ ~terminated
  /\ joining = h
  /\ TargetReturned(h)
  /\ joining' = NoHandle
  /\ flagView' = [flagView EXCEPT ![h] = flagMem[h]]
  /\ mHandle' = [mHandle EXCEPT ![h] = 0]
  /\ assoc' = [assoc EXCEPT ![h] = FALSE]
  /\ retired' = [retired EXCEPT ![h] = @ + 1]
  /\ joined' = joined \cup {h}
  /\ UNCHANGED <<frameT, hLife, routine, flagMem, terminated>>

\* A detach() that leaves the object associated with its execution.
DetachKeeping(h) ==
  /\ OwnerRuns
  /\ hLife[h] = "live"
  /\ joinable(h)
  /\ retired' = [retired EXCEPT ![h] = @ + 1]
  /\ UNCHANGED <<frameT, hLife, mHandle, assoc, routine, flagMem, flagView,
                 joining, joined, terminated>>

\* detach() on a joinable object: it is no longer joinable at once, the
\* execution goes on.
Detach(h) ==
  /\ OwnerRuns
  /\ hLife[h] = "live"
  /\ joinable(h)
  /\ mHandle' = [mHandle EXCEPT ![h] = 0]
  /\ assoc' = [assoc EXCEPT ![h] = FALSE]
  /\ retired' = [retired EXCEPT ![h] = @ + 1]
  /\ UNCHANGED <<frameT, hLife, routine, flagMem, flagView, joining, joined,
                 terminated>>

\* ~thread(): if(joinable()) std::terminate();
ThreadDestroy(h) ==
  /\ OwnerRuns
  /\ hLife[h] = "live"
  /\ hLife' = [hLife EXCEPT ![h] = "dead"]
  /\ terminated' = joinable(h)
  /\ UNCHANGED <<frameT, mHandle, assoc, retired, routine, flagMem, flagView,
                 joining, joined>>

InitThread == InitControl /\ InitObjects

NextThread ==
  \E h \in Handles :
    \/ ThreadDefault(h)
    \/ ThreadStart(h)
    \/ RoutineWrite(h)
    \/ RoutineReturn(h)
    \/ Propagate(h)
    \/ JoinCall(h)
    \/ JoinReturn(h)
    \/ Detach(h)
    \/ ThreadDestroy(h)

SpecThread == InitThread /\ [][NextThread]_vars

\* C12: joinable() is true exactly while the object has an execution that
\* neither join() nor detach() has retired: false for an object that was
\* default-constructed, joined or detached; and no execution is retired
\* twice.
C12_JoinableStateMachine ==
  \A h \in Handles :
    /\ joinable(h) <=> assoc[h]
    /\ assoc[h] => (routine[h] # "none" /\ retired[h] = 0)
    /\ (hLife[h] # "unborn" /\ routine[h] = "none") => ~joinable(h)
    /\ retired[h] <= 1
    /\ retired[h] = 1 => ~joinable(h)

\* C12 witness: one started object has been detached, another is live and
\* joinable.
C12_Witness ==
  \E g, h \in Handles :
    /\ hLife[g] = "live" /\ retired[g] = 1 /\ routine[g] # "none"
    /\ hLife[h] = "live" /\ joinable(h)

\* C13: once join() has returned on an object, the routine of its execution
\* has returned, the flag the routine set is true as the owning thread sees
\* it, and the object is not joinable.
C13_JoinOrdering ==
  \A h \in joined :
    /\ routine[h] = "returned"
    /\ flagView[h] = TRUE
    /\ ~joinable(h)

\* C13 witness: join() has returned on one object while the execution of
\* another is still running.
C13_Witness ==
  \E g, h \in Handles :
    /\ g \in joined /\ flagView[g]
    /\ routine[h] = "running"

\* C14: the process is terminated exactly when an object was destroyed while
\* it had an execution that neither join() nor detach() had retired.
C14_DestroyJoinableTerminates ==
  terminated <=> \E h \in Handles : hLife[h] = "dead" /\ assoc[h]

\* C14 witness: a default-constructed object was destroyed and the process
\* went on; then a started object was destroyed while joinable, and the
\* process is terminated.
C14_Witness ==
  \E g, h \in Handles :
    /\ hLife[g] = "dead" /\ routine[g] = "none"
    /\ hLife[h] = "dead" /\ assoc[h]
    /\ terminated

\* ------------------------------------------------------------------------
\* lock_guard<mutex>: guards in the scopes of the threads, all on one mutex.
\* The class declares a default constructor, a constructor from a mutex and a
\* destructor; it declares no copy constructor and no assignment, so the
\* compiler provides both, copying mMutex.

\* What the operations of a lock_guard leave alone.
frameG ==
  <<backend, orderVars, last, ret, held, rVars, cvVars, cvHist, scenVars, flagVars,
    atomVars, result, threadVars, pre>>

\* Guards of thread t that are constructed and not being destroyed.
LiveOf(t) == {g \in Guards : gLife[g] = "live" /\ gBy[g] = t}

\* lock_guard() : mMutex(0) {}
GuardDefault(t, g) ==
  /\ pc[t] = "idle"
  /\ gLife[g] = "unborn"
  /\ gLife' = [gLife EXCEPT ![g] = "live"]
  /\ gMutex' = [gMutex EXCEPT ![g] = 0]
  /\ gHow' = [gHow EXCEPT ![g] = "default"]
  /\ gBy' = [gBy EXCEPT ![g] = t]
  /\ UNCHANGED <<pc, mutexVars, gAcq, gLocks, gUnlocks, released, cur, frameG>>

\* explicit lock_guard(mutex_type &aMutex): mMutex = &aMutex; then the call
\* of mMutex->lock().
GuardConstruct(t, g) ==
  /\ gLife[g] = "unborn"
  /\ Goto(t, "idle", "g_lock_enter")
  /\ gLife' = [gLife EXCEPT ![g] = "ctor"]
  /\ gMutex' = [gMutex EXCEPT ![g] = 1]
  /\ gHow' = [gHow EXCEPT ![g] = "mutex"]
  /\ gBy' = [gBy EXCEPT ![g] = t]
  /\ gAcq' = [gAcq EXCEPT ![g] = g]
  /\ gLocks' = [gLocks EXCEPT ![g] = @ + 1]
  /\ cur' = [cur EXCEPT ![t] = g]
  /\ UNCHANGED <<mutexVars, gUnlocks, released, frameG>>

\* mMutex->lock(), statement by statement.
GuardCtorEnter(t) ==
  /\ GuardLock(t, "g_lock_enter", "g_lock_spin", "g_lock_ret")
  /\ UNCHANGED <<guardVars, frameG>>

GuardCtorSpin(t) ==
  /\ LockSpin(t, "g_lock_spin", "g_lock_set")
  /\ UNCHANGED <<guardVars, frameG>>

GuardCtorSet(t) ==
  /\ LockSet(t, "g_lock_set", "g_lock_ret")
  /\ UNCHANGED <<guardVars, frameG>>

\* The constructor returns: the guard is in scope.
GuardCtorReturn(t) ==
  /\ Goto(t, "g_lock_ret", "idle")
  /\ gLife' = [gLife EXCEPT ![cur[t]] = "live"]
  /\ cur' = [cur EXCEPT ![t] = 0]
  /\ UNCHANGED <<mutexVars, gMutex, gHow, gBy, gAcq, gLocks, gUnlocks,
                 released, frameG>>

\* lock_guard(const lock_guard &), provided by the compiler: mMutex(s.mMutex).
GuardCopy(t, g, s) ==
  /\ pc[t] = "idle"
  /\ gLife[g] = "unborn"
  /\ s \in LiveOf(t)
  /\ gLife' = [gLife EXCEPT ![g] = "live"]
  /\ gMutex' = [gMutex EXCEPT ![g] = gMutex[s]]
  /\ gAcq' = [gAcq EXCEPT ![g] = gAcq[s]]
  /\ gHow' = [gHow EXCEPT ![g] = "copy"]
  /\ gBy' = [gBy EXCEPT ![g] = t]
  /\ UNCHANGED <<pc, mutexVars, gLocks, gUnlocks, released, cur, frameG>>

\* lock_guard & operator=(const lock_guard &), provided by the compiler:
\* mMutex = s.mMutex.
GuardAssign(t, g, s) ==
  /\ pc[t] = "idle"
  /\ g \in LiveOf(t)
  /\ s \in LiveOf(t)
  /\ g # s
  /\ gMutex[g] # gMutex[s]
  /\ gMutex' = [gMutex EXCEPT ![g] = gMutex[s]]
  /\ gAcq' = [gAcq EXCEPT ![g] = gAcq[s]]
  /\ UNCHANGED <<pc, mutexVars, gLife, gHow, gBy, gLocks, gUnlocks, released,
                 cur, frameG>>

\* ~lock_guard(): if(mMutex) mMutex->unlock();  the test, and the call.
GuardDestroy(t, g) ==
  /\ pc[t] = "idle"
  /\ g \in LiveOf(t)
  /\ IF gMutex[g] # 0
     THEN /\ pc' = [pc EXCEPT ![t] = IF backend = "win32" THEN "g_unlock_clear"
                                                         ELSE "g_unlock_leave"]
          /\ gLife' = [gLife EXCEPT ![g] = "dtor"]
          /\ gUnlocks' = [gUnlocks EXCEPT ![g] = @ + 1]
          /\ released' = [released EXCEPT ![gAcq[g]] = @ + 1]
          /\ cur' = [cur EXCEPT ![t] = g]
     ELSE /\ gLife' = [gLife EXCEPT ![g] = "dead"]
          /\ UNCHANGED <<pc, gUnlocks, released, cur>>
  /\ UNCHANGED <<mutexVars, gMutex, gHow, gBy, gAcq, gLocks, frameG>>

\* win32 unlock(): mAlreadyLocked = false;
GuardDtorClear(t) ==
  /\ UnlockClear(t, "g_unlock_clear", "g_unlock_leave")
  /\ UNCHANGED <<guardVars, frameG>>

\* LeaveCriticalSection / pthread_mutex_unlock by the owner; by a thread that
\* does not own the native lock the call is undefined: it leaves the lock
\* alone, or takes it from its owner.
GuardRelease(t) ==
  IF mOwner = t
  THEN IF backend = "win32" THEN LeaveCriticalSection(t) ELSE UnlockPthread(t)
  ELSE \/ UNCHANGED <<mOwner, mCount>>
       \/ mOwner' = NoThread /\ mCount' = 0

\* unlock(): the native release, then the destructor returns and the guard
\* is gone.
GuardDtorLeave(t) ==
  /\ Goto(t, "g_unlock_leave", "idle")
  /\ GuardRelease(t)
  /\ gLife' = [gLife EXCEPT ![cur[t]] = "dead"]
  /\ cur' = [cur EXCEPT ![t] = 0]
  /\ UNCHANGED <<mAlreadyLocked, gMutex, gHow, gBy, gAcq, gLocks, gUnlocks,
                 released, frameG>>

InitGuard == InitControl /\ InitObjects

NextGuard ==
  \E t \in Threads :
    \/ \E g \in Guards :
         \/ GuardDefault(t, g)
         \/ GuardConstruct(t, g)
         \/ GuardDestroy(t, g)
         \/ \E s \in Guards : GuardCopy(t, g, s) \/ GuardAssign(t, g, s)
    \/ GuardCtorEnter(t)
    \/ GuardCtorSpin(t)
    \/ GuardCtorSet(t)
    \/ GuardCtorReturn(t)
    \/ GuardDtorClear(t)
    \/ GuardDtorLeave(t)

SpecGuard == InitGuard /\ [][NextGuard]_vars

RECURSIVE SumOver(_, _)
\* The sum of f over the guards in S.
SumOver(f, S) ==
  IF S = {} THEN 0
  ELSE LET g == CHOOSE x \in S : TRUE IN f[g] + SumOver(f, S \ {g})

\* All guard scopes have ended.
ScopesEnded == \A g \in Guards : gLife[g] \in {"unborn", "dead"}

\* C15: a lock_guard constructed on a mutex calls lock() exactly once, in its
\* constructor, and unlock() exactly once, in its destructor; a
\* default-constructed lock_guard calls neither; once all guard scopes have
\* ended the guards have called unlock() as many times as lock().
C15_GuardReleaseDiscipline ==
  /\ \A g \in Guards :
       /\ gHow[g] = "mutex" =>
            /\ gLocks[g] = 1
            /\ gLife[g] \in {"ctor", "live"} => gUnlocks[g] = 0
            /\ gLife[g] \in {"dtor", "dead"} => gUnlocks[g] = 1
       /\ gHow[g] = "default" => gLocks[g] = 0 /\ gUnlocks[g] = 0
  /\ ScopesEnded => SumOver(gUnlocks, Guards) = SumOver(gLocks, Guards)

\* C16: the operations of lock_guard never leave two guards in scope that
\* remember the mutex for the same lock() call, and no lock() call made by a
\* guard is answered by more than one unlock().
C16_NoCopiedOwnership ==
  /\ \A g, h \in Guards :
       (/\ g # h
        /\ gLife[g] \in {"live", "dtor"}
        /\ gLife[h] \in {"live", "dtor"}
        /\ gMutex[g] # 0
        /\ gMutex[h] # 0) => gAcq[g] # gAcq[h]
  /\ \A a \in Guards : released[a] <= 1

\* ------------------------------------------------------------------------
\* Progress of lock() and unlock(): threads that do not hold the mutex call
\* lock(), holders call unlock(); the statements inside the two calls are
\* scheduled fairly, the calls themselves are the clients' choice.

\* Threads inside lock() that have not taken the native lock.
WaitingInLock == {t \in Threads : pc[t] = "lock_enter"}

\* Threads that took the native lock in lock() and have not given it back in
\* unlock().
Taken ==
  {t \in Threads :
     \/ pc[t] \in {"lock_spin", "lock_set", "lock_ret", "unlock_clear", "unlock_leave"}
     \/ held[t] > 0}

\* The statements inside lock().
LockStep(t) ==
  \/ MLockEnter(t)
  \/ MLockSpin(t)
  \/ MLockSet(t)
  \/ MLockReturn(t)

\* The statements inside unlock().
UnlockStep(t) ==
  \/ MUnlockClear(t)
  \/ MUnlockLeave(t)

NextProgress ==
  \E t \in Threads :
    \/ CvCallLock(t)
    \/ LockStep(t)
    \/ CallUnlock(t)
    \/ UnlockStep(t)

\* A thread inside lock() or unlock() that can take its next step takes it.
FairProgress == \A t \in Threads : WF_vars(LockStep(t) \/ UnlockStep(t))

SpecProgress == InitMutex /\ [][NextProgress]_vars /\ FairProgress

\* C18: of the threads blocked in lock() at most one at a time takes the
\* mutex; when the mutex has been unlocked while threads are blocked in
\* lock(), some thread returns from lock(); and no thread stays in lock()
\* forever while the mutex stays unlocked.
C18_UnlockProgress ==
  /\ [](Cardinality(Taken) <= 1)
  /\ (WaitingInLock # {} /\ Taken = {}) ~> (\E t \in Threads : held[t] > 0)
  /\ \A t \in Threads : ~<>[](pc[t] = "lock_enter" /\ Taken = {})

\* C18 witness: a thread that was blocked in lock() while another held the
\* mutex has returned from lock() and holds it, with a third still blocked.
C18_Witness ==
  \E a, b, c \in Threads :
    /\ a # b /\ b # c /\ a # c
    /\ pc[a] = "idle" /\ last[a] = "unlock"
    /\ held[b] = 1 /\ pc[b] = "idle" /\ last[b] = "lock"
    /\ pc[c] = "lock_enter"

\* ------------------------------------------------------------------------
\* try_lock() on a mutex and on a recursive_mutex.  The clients use one of
\* the two objects at a time: a call on one is made while no thread owns or
\* is inside a call on the other.

\* No thread owns the mutex or is inside a call on it.
MutexIdle ==
  /\ mOwner = NoThread
  /\ \A t \in Threads : pc[t] \notin LockLabels \cup TryLabels \cup UnlockLabels

\* No thread owns the recursive_mutex or is inside a call on it.
RecursiveIdle ==
  /\ rOwner = NoThread
  /\ \A t \in Threads : pc[t] \notin {"rlock_enter", "rtry_enter", "runlock_leave"}

NextTry ==
  \E t \in Threads :
    \/ RecursiveIdle /\ CallLock(t)
    \/ MLockEnter(t)
    \/ MLockSpin(t)
    \/ MLockSet(t)
    \/ MLockReturn(t)
    \/ RecursiveIdle /\ CallTryLock(t)
    \/ MTryEnter(t)
    \/ MTryCheck(t)
    \/ MTryReturn(t)
    \/ CallUnlock(t) /\ mOwner = t
    \/ MUnlockClear(t)
    \/ MUnlockLeave(t)
    \/ MutexIdle /\ CallRLock(t)
    \/ RLock(t)
    \/ MutexIdle /\ CallRTryLock(t)
    \/ RTryLock(t)
    \/ CallRUnlock(t) /\ rOwner = t
    \/ RUnlock(t)

SpecTry == InitMutex /\ [][NextTry]_vars

\* Every statement of try_lock() can be executed in the state it is reached
\* in, whoever owns the mutex.
TryNeverBlocks ==
  \A t \in Threads :
    /\ pc[t] = "try_enter" => ENABLED MTryEnter(t)
    /\ pc[t] = "try_check" => ENABLED MTryCheck(t)
    /\ pc[t] = "try_ret" => ENABLED MTryReturn(t)
    /\ pc[t] = "rtry_enter" => ENABLED RTryLock(t)

\* mutex::try_lock() returns: true exactly when the caller, not an owner when
\* it called, is the owner now; on false the mutex is as it was at the call
\* when the caller owned it, and not the caller's otherwise.
MutexTryReturns(t) ==
  (pc[t] = "try_ret" /\ pc'[t] = "idle") =>
    /\ ret'[t] <=> (pre[t][1] # t /\ mOwner = t)
    /\ ~ret'[t] => IF pre[t][1] = t THEN mutexVars = pre[t] ELSE mOwner # t

\* recursive_mutex::try_lock() returns: true exactly when the caller has
\* entered the mutex once more; on false the mutex is another thread's and
\* unchanged.
RecursiveTryReturns(t) ==
  (pc[t] = "rtry_enter" /\ pc'[t] = "idle") =>
    /\ ret'[t] <=> (rOwner' = t /\ rCount' = rCount + 1)
    /\ ~ret'[t] => (rOwner \notin {NoThread, t} /\ UNCHANGED rVars)

\* C19: try_lock() on a mutex and on a recursive_mutex never waits for
\* another thread, returns true iff the caller obtained ownership through the
\* call, and when it returns false leaves the holder, mAlreadyLocked and the
\* native count as they were before the call.
C19_TryLockNonBlocking ==
  /\ []TryNeverBlocks
  /\ [][\A t \in Threads : MutexTryReturns(t) /\ RecursiveTryReturns(t)]_vars

\* ------------------------------------------------------------------------
\* atomic<int>: ++x, x++, --x, x-- and load() on a value at or next to the end
\* of the range of int, one call per thread.

StepOps == {"pre", "post", "predec", "postdec"}

\* The values the atomic<int> is constructed with.
EdgeValues == {IntMax, IntMax - 1, IntMin, IntMin + 1}

\* A thread calls ++x, x++, --x or x--: fetch_add(1) or fetch_sub(1).
CallStepOp(t) ==
  /\ left[t] > 0
  /\ \E op \in StepOps :
       /\ Goto(t, "idle", IF atomPath = "builtin" THEN "fa_op" ELSE "fa_lock_enter")
       /\ last' = [last EXCEPT ![t] = op]
  /\ ret' = [ret EXCEPT ![t] = FALSE]
  /\ left' = [left EXCEPT ![t] = @ - 1]
  /\ arg' = [arg EXCEPT ![t] = 1]
  /\ UNCHANGED <<frameA, mutexVars, flagVars, atomPath, desired, mValue, tmp,
                 result, before, wrote, rets, plain, writer, saw>>

\* A thread calls load().
CallLoad(t) ==
  /\ left[t] > 0
  /\ Goto(t, "idle", IF atomPath = "builtin" THEN "ld_op" ELSE "ld_lock_enter")
  /\ last' = [last EXCEPT ![t] = "load"]
  /\ ret' = [ret EXCEPT ![t] = FALSE]
  /\ left' = [left EXCEPT ![t] = @ - 1]
  /\ UNCHANGED <<frameA, mutexVars, flagVars, atomPath, desired, mValue, tmp,
                 result, fetchVars>>

\* The read of mValue by load().
LoadRead(t, from, to) ==
  /\ Step(t, from, to)
  /\ result' = [result EXCEPT ![t] = mValue]
  /\ before' = [before EXCEPT ![t] = mValue]
  /\ saw' = [saw EXCEPT ![t] = writer]
  /\ UNCHANGED <<frameA, mutexVars, flagVars, atomPath, desired, mValue, tmp,
                 left, arg, wrote, rets, plain, writer>>

\* return __sync_add_and_fetch((volatile T*)&mValue, 0);
LoadAtomic(t) ==
  /\ atomPath = "builtin"
  /\ LoadRead(t, "ld_op", "ld_ret")

\* fallback: lock_guard<mutex> guard(mLock);
LdLockEnter(t) ==
  /\ atomPath = "mutex"
  /\ GuardEnter(t, "ld_lock_enter", "ld_lock_spin", "ld_read")

LdLockSpin(t) == GuardSpin(t, "ld_lock_spin", "ld_lock_set")

LdLockSet(t) == GuardSet(t, "ld_lock_set", "ld_read")

\* fallback: return mValue;  the value is read, then the guard unlocks.
LdRead(t) == LoadRead(t, "ld_read", "ld_unlock")

LdUnlock(t) == GuardUnlockClear(t, "ld_unlock", "ld_unlock_leave", "ld_ret")

LdUnlockLeave(t) == GuardUnlockLeave(t, "ld_unlock_leave", "ld_ret")

\* load() returns the value read.
LdReturn(t) ==
  /\ Goto(t, "ld_ret", "idle")
  /\ ret' = [ret EXCEPT ![t] = result[t]]
  /\ result' = [result EXCEPT ![t] = 0]
  /\ before' = [before EXCEPT ![t] = 0]
  /\ UNCHANGED <<frameA, last, mutexVars, flagVars, atomPath, desired, mValue,
                 tmp, left, arg, wrote, rets, plain, writer, saw>>

InitOps ==
  /\ InitControl
  /\ flagPath = "builtin"
  /\ atomPath \in AtomPaths
  /\ desired \in EdgeValues
  /\ plain = FALSE
  /\ left = [t \in Threads |-> 1]
  /\ InitShared

NextOps ==
  \E t \in Threads :
    \/ NoTrap /\ CallStepOp(t)
    \/ NoTrap /\ FetchAndAdd(t)
    \/ NoTrap /\ FaLockEnter(t)
    \/ NoTrap /\ FaLockSpin(t)
    \/ NoTrap /\ FaLockSet(t)
    \/ NoTrap /\ FaRead(t)
    \/ NoTrap /\ FaLoad(t)
    \/ NoTrap /\ FaStore(t)
    \/ NoTrap /\ FaUnlock(t)
    \/ NoTrap /\ FaUnlockLeave(t)
    \/ NoTrap /\ FaReturn(t)
    \/ NoTrap /\ CallLoad(t)
    \/ NoTrap /\ LoadAtomic(t)
    \/ NoTrap /\ LdLockEnter(t)
    \/ NoTrap /\ LdLockSpin(t)
    \/ NoTrap /\ LdLockSet(t)
    \/ NoTrap /\ LdRead(t)
    \/ NoTrap /\ LdUnlock(t)
    \/ NoTrap /\ LdUnlockLeave(t)
    \/ NoTrap /\ LdReturn(t)

SpecOps == InitOps /\ [][NextOps]_vars

\* v with one added or subtracted in an int, as op does.
ByOne(op, v) == IF op \in SubOps THEN SubInt(v, 1) ELSE AddInt(v, 1)

Half == 2^(IntBits \div 2)

\* v with its low half replaced by that of d.
LowFrom(d, v) == (v \div Half) * Half + (d % Half)

\* The values the threads store.
StoreValues == {IntMin, -1, StartValue}

\* A thread calls store(v).
CallStore(t) ==
  /\ left[t] > 0
  /\ Goto(t, "idle", IF atomPath = "builtin" THEN "st_op" ELSE "st_lock_enter")
  /\ last' = [last EXCEPT ![t] = "store"]
  /\ ret' = [ret EXCEPT ![t] = FALSE]
  /\ left' = [left EXCEPT ![t] = @ - 1]
  /\ \E v \in StoreValues : arg' = [arg EXCEPT ![t] = v]
  /\ UNCHANGED <<frameA, mutexVars, flagVars, atomPath, desired, mValue, tmp,
                 result, before, wrote, rets, plain, writer, saw>>

\* __sync_lock_test_and_set(&mValue, desired): one atomic exchange.
StoreAtomic(t) ==
  /\ atomPath = "builtin"
  /\ Step(t, "st_op", "st_ret")
  /\ mValue' = arg[t]
  /\ writer' = t
  /\ UNCHANGED <<frameA, mutexVars, flagVars, atomPath, desired, tmp, left,
                 result, arg, before, wrote, rets, plain, saw>>

\* fallback: lock_guard<mutex> guard(mLock);
StLockEnter(t) ==
  /\ atomPath = "mutex"
  /\ GuardEnter(t, "st_lock_enter", "st_lock_spin", "st_write_lo")

StLockSpin(t) == GuardSpin(t, "st_lock_spin", "st_lock_set")

StLockSet(t) == GuardSet(t, "st_lock_set", "st_write_lo")

\* fallback: mValue = desired; the store of the low half.
StWriteLo(t) ==
  /\ Step(t, "st_write_lo", "st_write_hi")
  /\ mValue' = LowFrom(arg[t], mValue)
  /\ writer' = t
  /\ UNCHANGED <<frameA, mutexVars, flagVars, atomPath, desired, tmp, left,
                 result, arg, before, wrote, rets, plain, saw>>

\* A store whose high half never reaches the cell.
StWriteHiDropped(t) ==
  /\ Step(t, "st_write_hi", "st_unlock")
  /\ UNCHANGED <<frameA, mutexVars, flagVars, atomPath, desired, mValue, tmp,
                 left, result, fetchVars>>

\* fallback: mValue = desired; the store of the high half.
StWriteHi(t) ==
  /\ Step(t, "st_write_hi", "st_unlock")
  /\ mValue' = arg[t]
  /\ UNCHANGED <<frameA, mutexVars, flagVars, atomPath, desired, tmp, left,
                 result, fetchVars>>

StUnlock(t) == GuardUnlockClear(t, "st_unlock", "st_unlock_leave", "st_ret")

StUnlockLeave(t) == GuardUnlockLeave(t, "st_unlock_leave", "st_ret")

\* store() returns.
StReturn(t) ==
  /\ Step(t, "st_ret", "idle")
  /\ UNCHANGED <<frameA, mutexVars, flagVars, atomVars, result>>

InitStore ==
  /\ InitControl
  /\ flagPath = "builtin"
  /\ atomPath \in AtomPaths
  /\ desired \in InitValues
  /\ plain = FALSE
  /\ left = [t \in Threads |-> 1]
  /\ InitShared

NextStore ==
  \E t \in Threads :
    \/ NoTrap /\ CallStore(t)
    \/ NoTrap /\ StoreAtomic(t)
    \/ NoTrap /\ StLockEnter(t)
    \/ NoTrap /\ StLockSpin(t)
    \/ NoTrap /\ StLockSet(t)
    \/ NoTrap /\ StWriteLo(t)
    \/ NoTrap /\ StWriteHi(t)
    \/ NoTrap /\ StUnlock(t)
    \/ NoTrap /\ StUnlockLeave(t)
    \/ NoTrap /\ StReturn(t)
    \/ NoTrap /\ CallStepOp(t)
    \/ NoTrap /\ FetchAndAdd(t)
    \/ NoTrap /\ FaLockEnter(t)
    \/ NoTrap /\ FaLockSpin(t)
    \/ NoTrap /\ FaLockSet(t)
    \/ NoTrap /\ FaRead(t)
    \/ NoTrap /\ FaLoad(t)
    \/ NoTrap /\ FaStore(t)
    \/ NoTrap /\ FaUnlock(t)
    \/ NoTrap /\ FaUnlockLeave(t)
    \/ NoTrap /\ FaReturn(t)
    \/ NoTrap /\ CallLoad(t)
    \/ NoTrap /\ LoadAtomic(t)
    \/ NoTrap /\ LdLockEnter(t)
    \/ NoTrap /\ LdLockSpin(t)
    \/ NoTrap /\ LdLockSet(t)
    \/ NoTrap /\ LdRead(t)
    \/ NoTrap /\ LdUnlock(t)
    \/ NoTrap /\ LdUnlockLeave(t)
    \/ NoTrap /\ LdReturn(t)

SpecStore == InitStore /\ [][NextStore]_vars

\* The value the one call of thread w has written: the argument of its
\* store(), or the value after its increment or decrement.
WroteBy(w) ==
  IF last[w] = "store" THEN arg[w]
  ELSE IF pc[w] # "idle" THEN wrote[w]
  ELSE IF last[w] \in {"pre", "predec"} THEN ret[w]
  ELSE ByOne(last[w], ret[w])

\* The value a load() that saw the write of w (or none) has to return.
Expected(w) == IF w = NoThread THEN desired ELSE WroteBy(w)

LoadLabels ==
  {"ld_op", "ld_lock_enter", "ld_lock_spin", "ld_lock_set", "ld_read",
   "ld_unlock", "ld_unlock_leave", "ld_ret"}

\* C21: a load() returns the initial value or the value a store() or fetch
\* operation wrote, whole; after store(v), with no write in between, it
\* returns v; and no statement of load() changes the cell.  (A process ended
\* by a trap returns nothing.)
C21_StoreLoadRoundTrip ==
  /\ [](\A u \in Threads : NoTrap =>
          /\ pc[u] = "ld_ret" => result[u] = Expected(saw[u])
          /\ (pc[u] = "idle" /\ last[u] = "load") =>
               /\ ret[u] = Expected(saw[u])
               /\ \A t \in Threads :
                    (saw[u] = t /\ writer = t /\ last[t] = "store") =>
                       (ret[u] = arg[t] /\ mValue = arg[t]))
  /\ [][\A u \in Threads :
          (pc[u] \in LoadLabels /\ pc'[u] # pc[u]) => mValue' = mValue]_vars

\* C21 witness: on the mutex-guarded path a store of the smallest int has
\* returned, no write followed, and a load() that read it returned that
\* value, while a third thread's store waits for the lock's next holder.
C21_Witness ==
  \E t, u, v \in Threads :
    /\ atomPath = "mutex"
    /\ pc[t] = "idle" /\ last[t] = "store" /\ arg[t] = IntMin /\ writer = t
    /\ pc[u] = "idle" /\ last[u] = "load" /\ saw[u] = t /\ ret[u] = IntMin
    /\ last[v] = "store" /\ arg[v] = -1 /\ pc[v] = "st_lock_enter"

\* ------------------------------------------------------------------------
\* thread::detach(): the executions under a scheduler that lets every started
\* routine run.

\* An execution is scheduled while the process lives.
FairRoutines ==
  \A h \in Handles : WF_vars(RoutineWrite(h) \/ RoutineReturn(h))

SpecDetach == InitThread /\ [][NextThread]_vars /\ FairRoutines

\* detach() has returned on h.
Detached(h) == retired[h] = 1 /\ h \notin joined

\* C22: detach() is enabled on every live joinable object whatever its
\* routine is doing, and the step that detaches leaves the object
\* non-joinable and the routine where it was; destroying a detached object
\* does not terminate the process; and the routine of a detached execution
\* returns, whether the object lives or not, unless the process is terminated
\* (by the destruction of another, joinable object).
C22_DetachIndependence ==
  /\ [](\A h \in Handles :
          (OwnerRuns /\ hLife[h] = "live" /\ joinable(h)) => ENABLED Detach(h))
  /\ [][\A h \in Handles :
          /\ (~Detached(h) /\ Detached(h)') =>
                (mHandle'[h] = 0 /\ routine'[h] = routine[h])
          /\ (Detached(h) /\ hLife[h] = "live" /\ hLife'[h] = "dead") =>
                terminated' = terminated]_vars
  /\ \A h \in Handles :
       Detached(h) ~> (routine[h] = "returned" \/ terminated)

\* C22 witness: a detached object has been destroyed, its routine has
\* returned after writing the flag (the owning thread has not seen the write),
\* and the process lives.
C22_Witness ==
  \E h \in Handles :
    /\ Detached(h)
    /\ hLife[h] = "dead"
    /\ routine[h] = "returned"
    /\ flagMem[h]
    /\ ~flagView[h]
    /\ ~terminated

\* ------------------------------------------------------------------------
\* this_thread::sleep_for and the chrono duration types.  A thread's call
\* keeps the duration type in last[t], the count in arg[t] and the argument
\* of the native sleep call in result[t].

\* typedef duration<__intmax_t, ratio<N, D> >: the standard duration types.
Durations ==
  {"nanoseconds", "microseconds", "milliseconds", "seconds", "minutes",
   "hours"}

\* ratio<N, D>: N of the period of a duration type.
PeriodN(u) ==
  CASE u = "minutes" -> 60
    [] u = "hours" -> 3600
    [] OTHER -> 1

\* ratio<N, D>: D of the period of a duration type.
PeriodD(u) ==
  CASE u = "nanoseconds" -> 1000000000
    [] u = "microseconds" -> 1000000
    [] u = "milliseconds" -> 1000
    [] OTHER -> 1

\* Units of the native sleep call in a second: Sleep() takes milliseconds,
\* usleep() microseconds.
Scale(b) == IF b = "win32" THEN 1000 ELSE 1000000

\* The counts the threads sleep for.
SleepCounts == {0, 1, 400, 2148}

\* double(count) * (Scale * N / D) is within the range of int.
InRange(b, u, c) ==
  \/ PeriodD(u) >= Scale(b)
  \/ c * PeriodN(u) <= IntMax \div (Scale(b) \div PeriodD(u))

\* int(double(count) * (Scale * N / D) + 0.5), for a product in range: the
\* product plus a half, cut to an integer.
Converted(b, u, c) ==
  IF PeriodD(u) >= Scale(b)
  THEN (2 * c + (PeriodD(u) \div Scale(b))) \div (2 * (PeriodD(u) \div Scale(b)))
  ELSE c * PeriodN(u) * (Scale(b) \div PeriodD(u))

\* What int() of a double beyond the range of int gives: undefined; the
\* smallest int where the conversion instruction signals it so, the largest
\* where it saturates.
OutOfRange == {IntMin, IntMax}

\* n units of the native sleep call are less time than count c of type u.
Shorter(b, u, c, n) ==
  IF PeriodD(u) >= Scale(b)
  THEN n * (PeriodD(u) \div Scale(b)) < c
  ELSE \/ ~InRange(b, u, c)
       \/ n < c * PeriodN(u) * (Scale(b) \div PeriodD(u))

\* sleep_for(duration<_Rep, _Period>(c)) is called.
CallSleepFor(t) ==
  /\ left[t] > 0
  /\ left' = [left EXCEPT ![t] = @ - 1]
  /\ \E u \in Durations, c \in SleepCounts :
       /\ Goto(t, "idle", "sl_convert")
       /\ last' = [last EXCEPT ![t] = u]
       /\ arg' = [arg EXCEPT ![t] = c]
  /\ ret' = [ret EXCEPT ![t] = FALSE]
  /\ UNCHANGED <<frameA, mutexVars, flagVars, atomPath, desired, mValue, tmp,
                 result, before, wrote, rets, plain, writer, saw>>

\* The argument of Sleep() / usleep() is computed.
SleepConvert(t) ==
  /\ Step(t, "sl_convert", "sl_native")
  /\ \E n \in IF InRange(backend, last[t], arg[t])
              THEN {Converted(backend, last[t], arg[t])}
              ELSE OutOfRange :
       result' = [result EXCEPT ![t] = n]
  /\ UNCHANGED <<frameA, mutexVars, flagVars, atomPath, desired, mValue, tmp,
                 left, arg, before, wrote, rets, plain, writer, saw>>

\* Sleep(n) / usleep(n) returns.
SleepNative(t) ==
  /\ Return(t, "sl_native", last[t], result[t])
  /\ UNCHANGED <<frameA, mutexVars, flagVars, atomVars, result>>

\* Every thread sleeps once.
InitSleep ==
  /\ InitControl
  /\ flagPath = "builtin"
  /\ atomPath = "builtin"
  /\ desired = 0
  /\ plain = FALSE
  /\ left = [t \in Threads |-> 1]
  /\ InitShared

NextSleep ==
  \E t \in Threads :
    \/ CallSleepFor(t)
    \/ SleepConvert(t)
    \/ SleepNative(t)

SpecSleep == InitSleep /\ [][NextSleep]_vars

\* C23: the argument sleep_for passes to the native sleep call is the
\* conversion of a product within the range of int, is not negative, and is
\* not less time than the duration asked for.
C23_SleepNeverShort ==
  \A t \in Threads :
    pc[t] = "sl_native" =>
      /\ InRange(backend, last[t], arg[t])
      /\ result[t] >= 0
      /\ ~Shorter(backend, last[t], arg[t], result[t])

\* ------------------------------------------------------------------------
\* condition_variable on the backend that emulates it with events: the calls
\* of the clients under a scheduler that runs every statement that can run
\* again and again, with clients that unlock the mutex they hold.

\* The statements inside the calls of thread t.
WakeStep(t) ==
  \/ MLockEnter(t)
  \/ MLockSpin(t)
  \/ MLockSet(t)
  \/ MLockReturn(t)
  \/ MUnlockClear(t)
  \/ MUnlockLeave(t)
  \/ WInc(t)
  \/ WUnlockClear(t)
  \/ WUnlockLeave(t)
  \/ WWaitEvents(t)
  \/ WWaitResume(t)
  \/ WLockEnter(t)
  \/ WLockSpin(t)
  \/ WLockSet(t)
  \/ WReturn(t)
  \/ N1Signal(t)
  \/ N1Return(t)
  \/ NABroadcast(t)
  \/ NAReturn(t)

InitWake == InitCV /\ backend = "win32"

\* The client notifies as the class documentation shows: holding the mutex,
\* once before it unlocks or waits.
MayNotify(t) ==
  /\ held[t] = 1
  /\ last[t] \notin {"notify_one", "notify_all"}

WakeNotifyOne(t) == MayNotify(t) /\ CallNotifyOne(t)

WakeNotifyAll(t) == MayNotify(t) /\ CallNotifyAll(t)

NextWake ==
  \E t \in Threads :
    \/ CvCallLock(t)
    \/ CallUnlock(t)
    \/ CallWait(t)
    \/ WakeNotifyOne(t)
    \/ WakeNotifyAll(t)
    \/ WakeStep(t)

\* A statement that can run again and again does run, and a client that
\* holds the mutex unlocks it if it does not wait.
FairWake ==
  \A t \in Threads : SF_vars(WakeStep(t) \/ CallUnlock(t))

SpecWake == InitWake /\ [][NextWake]_vars /\ FairWake

\* Threads inside wait() that have let go of the mutex and have not gone on
\* from _wait().
Released ==
  {u \in Threads : pc[u] \in {"w_wait", "w_blocked"}}

\* Thread t, holding the mutex, makes the step of its notify call.
NotifiesHolding(t) ==
  /\ held[t] = 1
  /\ pc[t] \in {"n1_signal", "na_signal"}
  /\ pc'[t] # pc[t]

frameRW ==
  <<backend, orderVars, mutexVars, cvHist, scenVars, flagVars, atomVars, result,
    threadVars, guardVars, pre>>

\* Threads suspended in wait() on the recursive mutex, or about to be.
RSuspended == {t \in Threads : pc[t] \in {"rw_wait", "rw_blocked"}}

\* wait(m) is called by a thread that has locked m once or more.
CallRWait(t) ==
  /\ held[t] >= 1
  /\ Call(t, IF backend = "win32" THEN "rw_inc" ELSE "rw_cond")
  /\ UNCHANGED <<frameRW, held, rVars, cvVars>>

\* win32: ++ mWaitersCount, under mWaitersCountLock.
RWInc(t) ==
  /\ backend = "win32"
  /\ Step(t, "rw_inc", "rw_unlock")
  /\ mWaitersCount' = mWaitersCount + 1
  /\ UNCHANGED <<frameRW, held, rVars, mEvents>>

\* win32: aMutex.unlock(): one LeaveCriticalSection.
RWUnlock(t) ==
  /\ backend = "win32"
  /\ Step(t, "rw_unlock", "rw_wait")
  /\ RLeave(t)
  /\ UNCHANGED <<frameRW, held, cvVars>>

\* win32, _wait(): the caller goes on when a notification has unblocked it
\* and is suspended otherwise.
RWWait(t) ==
  /\ backend = "win32"
  /\ pc[t] = "rw_wait"
  /\ IF t \in mEvents
     THEN /\ pc' = [pc EXCEPT ![t] = "rw_lock"]
          /\ mEvents' = mEvents \ {t}
          /\ mWaitersCount' = mWaitersCount - 1
     ELSE /\ pc' = [pc EXCEPT ![t] = "rw_blocked"]
          /\ UNCHANGED cvVars
  /\ UNCHANGED <<frameRW, last, ret, held, rVars>>

\* win32, _wait(): a suspended caller is resumed by a notification.
RWResume(t) ==
  /\ backend = "win32"
  /\ t \in mEvents
  /\ Step(t, "rw_blocked", "rw_lock")
  /\ mEvents' = mEvents \ {t}
  /\ mWaitersCount' = mWaitersCount - 1
  /\ UNCHANGED <<frameRW, held, rVars>>

\* posix: pthread_cond_wait(&mHandle, &aMutex.mHandle), first half: one
\* unlock of the mutex, and the caller blocks on the condition.
RWCondWait(t) ==
  /\ backend = "posix"
  /\ Step(t, "rw_cond", "rw_blocked")
  /\ RLeave(t)
  /\ UNCHANGED <<frameRW, held, cvVars>>

\* posix: pthread_cond_wait may return without a signal.
RWSpurious(t) ==
  /\ backend = "posix"
  /\ Step(t, "rw_blocked", "rw_lock")
  /\ UNCHANGED <<frameRW, held, rVars, cvVars>>

\* win32: aMutex.lock();  posix: pthread_cond_wait, second half.
RWLock(t) ==
  /\ Step(t, "rw_lock", "rw_ret")
  /\ REnter(t)
  /\ UNCHANGED <<frameRW, held, cvVars>>

\* wait() returns.
RWReturn(t) ==
  /\ Return(t, "rw_ret", "rwait", TRUE)
  /\ UNCHANGED <<frameRW, held, rVars, cvVars>>

\* notify_all(): every waiter is unblocked.
RNotifyAll(t) ==
  /\ pc[t] = "idle"
  /\ RSuspended # {}
  /\ last' = [last EXCEPT ![t] = "notify_all"]
  /\ ret' = [ret EXCEPT ![t] = TRUE]
  /\ IF backend = "win32"
     THEN /\ mEvents' = mEvents \cup RSuspended
          /\ UNCHANGED pc
     ELSE /\ pc' = [u \in Threads |->
                      IF pc[u] = "rw_blocked" THEN "rw_lock" ELSE pc[u]]
          /\ UNCHANGED mEvents
  /\ UNCHANGED <<frameRW, held, rVars, mWaitersCount>>

InitRWait == InitControl /\ InitObjects

NextRWait ==
  \E t \in Threads :
    \/ CallRLock(t)
    \/ RLock(t)
    \/ CallRUnlock(t)
    \/ RUnlock(t)
    \/ CallRWait(t)
    \/ RWInc(t)
    \/ RWUnlock(t)
    \/ RWWait(t)
    \/ RWResume(t)
    \/ RWCondWait(t)
    \/ RWSpurious(t)
    \/ RWLock(t)
    \/ RWReturn(t)
    \/ RNotifyAll(t)

SpecRWait == InitRWait /\ [][NextRWait]_vars

\* C25: while a thread is suspended in wait() on a recursive mutex it does
\* not own the mutex, and when wait() has returned it owns the mutex as
\* many times as it had locked it.
C25_RecursiveWaitReleases ==
  \A t \in Threads :
    /\ t \in RSuspended => rOwner # t
    /\ (pc[t] = "idle" /\ last[t] = "rwait") =>
         (rOwner = t /\ rCount = held[t])

\* ------------------------------------------------------------------------
\* atomic_flag(int value), then test_and_set() and clear() one after the
\* other in any order, compiled each of the ways of FlagPaths.  arg[t] keeps
\* the value mFlag held when t called test_and_set().

\* Values given to atomic_flag(int value).
FlagInits == {0, 1, 2, -1, IntMin}

\* No call is under way.
AllIdle == \A u \in Threads : pc[u] = "idle"

\* f.test_and_set() is called, whatever the flag is.
SeqCallTestAndSet(t) ==
  /\ AllIdle
  /\ Call(t, IF flagPath \in ExchangePaths THEN "tas_op"
             ELSE IF flagPath = "ppc" THEN "tas_lwarx" ELSE "tas_lock_enter")
  /\ arg' = [arg EXCEPT ![t] = mFlag]
  /\ UNCHANGED <<frameA, mutexVars, flagVars, atomPath, desired, mValue, tmp,
                 left, result, before, wrote, rets, plain, writer, saw>>

\* f.clear() is called, whatever the flag is.
SeqCallClear(t) ==
  /\ AllIdle
  /\ Call(t, IF flagPath = "mutex" THEN "clr_lock_enter" ELSE "clr_op")
  /\ UNCHANGED <<frameA, mutexVars, flagVars, atomVars, result>>

\* atomic_flag(int value) : mFlag(value)
InitSeq ==
  /\ InitControl
  /\ flagPath \in FlagPaths
  /\ flagPath = "msvc" => backend = "win32"
  /\ flagPath = "ppc" => backend = "posix"
  /\ atomPath = "builtin"
  /\ desired = 0
  /\ plain = FALSE
  /\ InitIncrements
  /\ InitMutexObject
  /\ InitRecursiveObject
  /\ InitCondObject
  /\ InitExample
  /\ mFlag \in FlagInits
  /\ result = [t \in Threads |-> 0]
  /\ resv = [t \in Threads |-> FALSE]
  /\ old = [t \in Threads |-> 0]
  /\ InitAtomicObject
  /\ InitHandles
  /\ InitGuards

NextSeq ==
  \E t \in Threads :
    \/ SeqCallTestAndSet(t)
    \/ TasExchange(t)
    \/ TasLwarx(t)
    \/ TasStwcx(t)
    \/ TasLockEnter(t)
    \/ TasLockSpin(t)
    \/ TasLockSet(t)
    \/ TasRead(t)
    \/ TasWrite(t)
    \/ TasUnlock(t)
    \/ TasUnlockLeave(t)
    \/ TasReturn(t)
    \/ SeqCallClear(t)
    \/ ClearStore(t)
    \/ ClearLockEnter(t)
    \/ ClearLockSpin(t)
    \/ ClearLockSet(t)
    \/ ClearWrite(t)
    \/ ClearUnlock(t)
    \/ ClearUnlockLeave(t)
    \/ ClearReturn(t)

SpecSeq == InitSeq /\ [][NextSeq]_vars

\* C26: however the class is compiled, test_and_set() returns true exactly
\* when the flag was not zero at the call and leaves it not zero, and clear()
\* leaves it zero: the values returned and the set/clear state after every
\* call are one function of the value given to the constructor and the
\* calls made, the same on every path.
C26_FlagBackendsAgree ==
  [][\A t \in Threads :
       /\ (pc[t] = "tas_ret" /\ pc'[t] = "idle") =>
            (ret'[t] = (arg[t] # 0) /\ mFlag' # 0)
       /\ (pc[t] = "clr_ret" /\ pc'[t] = "idle") => mFlag' = 0]_vars

\* C26 witness: on PowerPC, a flag constructed with 2 was tested: the call
\* returned true and stored nothing; it was cleared and tested again by
\* another thread, which returned false and set it.
C26_Witness ==
  \E t, u \in Threads :
    /\ flagPath = "ppc"
    /\ pc[t] = "idle" /\ last[t] = "test_and_set" /\ ret[t] = TRUE
    /\ arg[t] = 2
    /\ pc[u] = "idle" /\ last[u] = "test_and_set" /\ ret[u] = FALSE
    /\ arg[u] = 0
    /\ mFlag = 1

\* ------------------------------------------------------------------------
\* The memory_order argument on the path compiled without builtins and
\* assembly.  Two runs of the same calls by the same threads, scheduled alike,
\* that differ in the order arguments only: order[t] is the pair of arguments
\* of t's call, mValue / mFlag / result belong to the first run and mValue2 /
\* mFlag2 / result2 to the second.  The object is an atomic_flag when
\* flagPath is "mutex" and an atomic<int> when atomPath is.

\* What the calls of the two runs leave alone.
frameO ==
  <<backend, held, rVars, cvVars, cvHist, scenVars, threadVars, guardVars,
    pre, flagPath, resv, old, atomPath, desired, tmp, before, wrote, rets,
    plain, writer, saw>>

\* The operations that take a memory_order.
OrderedOps ==
  IF flagPath = "mutex"
  THEN {<<"test_and_set", 0>>, <<"clear", 0>>}
  ELSE {<<"store", 1>>, <<"store", 2>>, <<"load", 0>>, <<"fetch_add", 1>>,
        <<"fetch_sub", 1>>}

\* The cell of the object of operation op, of the two given.
CellOf(op, value, flag) ==
  IF op \in {"test_and_set", "clear"} THEN flag ELSE value

\* A fallback whose relaxed load does not read the cell and whose relaxed
\* clear does not write it.
FallbackRelaxed(op, cell, a, o) ==
  CASE op = "store" -> <<a, 0>>
    [] op = "load" ->
         <<cell, IF o = "memory_order_relaxed" THEN 0 ELSE cell>>
    [] op = "fetch_add" -> <<AddInt(cell, a), cell>>
    [] op = "fetch_sub" -> <<SubInt(cell, a), cell>>
    [] op = "test_and_set" -> <<1, cell>>
    [] op = "clear" ->
         <<IF o = "memory_order_relaxed" THEN cell ELSE 0, 0>>

\* The statements between the guard's lock and unlock, called with the
\* argument a and the order o on a cell: the cell after them and the local
\* result.  The order is a parameter none of them reads.
Fallback(op, cell, a, o) ==
  CASE op = "store" -> <<a, 0>>
    [] op = "load" -> <<cell, cell>>
    [] op = "fetch_add" -> <<AddInt(cell, a), cell>>
    [] op = "fetch_sub" -> <<SubInt(cell, a), cell>>
    [] op = "test_and_set" -> <<1, cell>>
    [] op = "clear" -> <<0, 0>>

\* The threads that call the operations, each once.
OrderCallers == {t \in Threads : t <= 2}

\* A call with its arguments, the order argument chosen in each run.
OrdCall(t) ==
  /\ t \in OrderCallers
  /\ left[t] > 0
  /\ left' = [left EXCEPT ![t] = @ - 1]
  /\ Goto(t, "idle", "ord_lock_enter")
  /\ ret' = [ret EXCEPT ![t] = FALSE]
  /\ \E c \in OrderedOps :
       /\ last' = [last EXCEPT ![t] = c[1]]
       /\ arg' = [arg EXCEPT ![t] = c[2]]
  /\ \E o1, o2 \in MemoryOrders : order' = [order EXCEPT ![t] = <<o1, o2>>]
  /\ UNCHANGED <<frameO, mutexVars, mValue, mFlag, result, mValue2, mFlag2,
                 result2>>

\* lock_guard<mutex> guard(mLock);
OrdLockEnter(t) ==
  GuardEnter(t, "ord_lock_enter", "ord_lock_spin", "ord_body")

OrdLockSpin(t) == GuardSpin(t, "ord_lock_spin", "ord_lock_set")

OrdLockSet(t) == GuardSet(t, "ord_lock_set", "ord_body")

\* The statements under the guard, in each run.
OrdBody(t) ==
  /\ Step(t, "ord_body", "ord_unlock")
  /\ LET one == Fallback(last[t], CellOf(last[t], mValue, mFlag), arg[t],
                         order[t][1])
         two == Fallback(last[t], CellOf(last[t], mValue2, mFlag2), arg[t],
                         order[t][2])
         onFlag == last[t] \in {"test_and_set", "clear"}
     IN /\ mValue' = IF onFlag THEN mValue ELSE one[1]
        /\ mFlag' = IF onFlag THEN one[1] ELSE mFlag
        /\ result' = [result EXCEPT ![t] = one[2]]
        /\ mValue2' = IF onFlag THEN mValue2 ELSE two[1]
        /\ mFlag2' = IF onFlag THEN two[1] ELSE mFlag2
        /\ result2' = [result2 EXCEPT ![t] = two[2]]
  /\ UNCHANGED <<frameO, mutexVars, left, arg, order>>

\* The guard unlocks mLock.
OrdUnlock(t) == GuardUnlockClear(t, "ord_unlock", "ord_unlock_leave", "ord_ret")

OrdUnlockLeave(t) == GuardUnlockLeave(t, "ord_unlock_leave", "ord_ret")

\* The call returns its result (test_and_set: as a bool).
OrdReturn(t) ==
  /\ Return(t, "ord_ret", last[t],
            IF last[t] = "test_and_set" THEN ToBool(result[t]) ELSE result[t])
  /\ UNCHANGED <<frameO, mutexVars, mValue, mFlag, result, left, arg,
                 orderVars>>

\* One of the two classes compiled with its mLock, two threads making one
\* call each.
InitOrder ==
  /\ InitControl
  /\ \/ flagPath = "mutex" /\ atomPath = "builtin"
     \/ flagPath = "builtin" /\ atomPath = "mutex"
  /\ desired = 0
  /\ plain = FALSE
  /\ left = [t \in Threads |-> 1]
  /\ InitShared

NextOrder ==
  \E t \in Threads :
    \/ OrdCall(t)
    \/ OrdLockEnter(t)
    \/ OrdLockSpin(t)
    \/ OrdLockSet(t)
    \/ OrdBody(t)
    \/ OrdUnlock(t)
    \/ OrdUnlockLeave(t)
    \/ OrdReturn(t)

SpecOrder == InitOrder /\ [][NextOrder]_vars

EnteredFresh(t) == pc[t] = "lock_spin" /\ held[t] = 0

\* C28: on the win32 backend, whenever no call is under way mAlreadyLocked is
\* true exactly when some thread holds the mutex, the holder owns the
\* critical section with one entry and nobody owns it when nobody holds the
\* mutex; and a thread that does not hold the mutex never finds
\* mAlreadyLocked true once it has entered the critical section.
C28_Win32Bookkeeping ==
  backend = "win32" =>
    /\ AllIdle =>
         /\ mAlreadyLocked <=> Holders # {}
         /\ \A t \in Holders : mOwner = t /\ mCount = 1
         /\ Holders = {} => (mOwner = NoThread /\ mCount = 0)
    /\ \A t \in Threads : EnteredFresh(t) => ~mAlreadyLocked
====
